---- MODULE Spec2Model ----
(***************************************************************************)
(* Model of the AI social media automation pipeline (ar4003/assignment1): *)
(* the retrying categorization caller, the approval gate, the content     *)
(* generation loop, the record-store files, the spreadsheet and the       *)
(* orchestrator that sequences the four phases.                           *)
(***************************************************************************)
EXTENDS Integers, Sequences, FiniteSets, TLC

VARIABLES
    \* ---- categorize_keyword (phase2_gpt1_categorization.py) ----
    ckpc,        \* position in categorize_keyword
    entryKw,     \* entry['keyword'] of the call
    prompt,      \* the values formatted into the categorization prompt
    retries,     \* parameter retries
    backoff0,    \* parameter backoff as passed in
    backoff,     \* local variable backoff (doubles)
    attempt,     \* number of loop iterations begun
    calls,       \* calls made to client.generate_text
    slept,       \* sequence of the time.sleep(backoff) durations
    parsed,      \* <<>> or <<value json.loads returned>>
    ret,         \* <<>> or <<the returned record>>
    \* ---- generate_content_for_keyword (phase3_gpt2_content_generation.py) ----
    gpc,         \* position in generate_content_for_keyword
    gEntry,      \* the entry passed in
    gIdx,        \* index of the next content type of prompts.items()
    gCalls,      \* requests.post calls made, per content type
    gContent,    \* generated_content: content type -> artifact or error marker
    gRet,        \* <<>>, <<None>> or <<generated_content>>
    \* ---- Record Store (data/*.csv) and Tabular Store (worksheet) ----
    phase1File,       \* data/phase1_trends_data.csv
    categorizedFile,  \* data/phase2_categorized_data.csv
    approvedFile,     \* data/phase2_approved.csv
    updatedFile,      \* data/updated_trends_data.csv
    sampleFile,       \* data/sample_trends_data.csv
    contentJson,      \* output/generated_content.json
    sheet,            \* worksheet 'AI Automation Data'
    min_confidence,   \* threshold of the latest auto_approve call
    \* ---- run_all_phases (main.py) ----
    opc,              \* position in run_all_phases
    completed_phases, \* local variable completed_phases
    started,          \* phases started in the current full run
    failed,           \* phases that returned False in the current full run
    p3Input,          \* what phase 3 of the current full run loaded
    verdict,          \* "none" or the value run_all_phases returned
    \* ---- GPT2ContentGenerationAgent.run, entry by entry ----
    s3pc,             \* position in run / process_approved_entries
    s3Data,           \* local variable data (rows of phase2_approved.csv)
    s3Idx,            \* index of the next entry of the list approved
    s3Results,        \* local variable results / generated_content
    s3Ret,            \* "none" or the value run returned
    \* ---- Publisher.run, row by row (publish_content.py) ----
    ppc,              \* position in Publisher.run
    pRows,            \* local variable rows (get_all_records)
    pIdx,             \* position in rows (idx - 1)
    pCalls,           \* the mock_publish_* calls of this run, in order
    pPublished,       \* keywords passed to the mock_publish_* calls of this run
    pRet,             \* "none" or the value run returned
    pRuns,            \* number of Publisher runs started
    \* ---- a second Publisher process on the same worksheet ----
    qpc,              \* position in Publisher.run
    qRows,            \* local variable rows
    qIdx,             \* position in rows (idx - 1)
    qPublished,       \* keywords passed to the mock_publish_* calls
    \* ---- GPT1CategorizationAgent.run, entry by entry ----
    b2pc,             \* position in run / process_batch
    b2Data,           \* local variable data (rows of phase1_trends_data.csv)
    b2Idx,            \* index of the next entry of data
    b2Out,            \* local variable categorized_data
    b2Ret,            \* "none" or the value run returned
    \* ---- main (main.py) ----
    mpc,              \* position in main
    mPhase,           \* args.phase (0 when --phase is not given)
    mSample,          \* args.sample
    mSuccess,         \* local variable success
    exitCode,         \* "none" or the exit code of the process
    \* ---- the Trend Source and the rate limiting ----
    trends,           \* the list passed to save_to_csv
    lastLm            \* what came last: a Language Model call or a delay

callerVars == <<ckpc, entryKw, prompt, retries, backoff0, backoff, attempt, calls, slept, parsed, ret>>
contentVars == <<gpc, gEntry, gIdx, gCalls, gContent, gRet>>

fileVars == <<phase1File, categorizedFile, approvedFile, updatedFile, sampleFile, contentJson>>
storeVars == <<fileVars, sheet, min_confidence>>
orchVars == <<opc, completed_phases, started, failed, p3Input, verdict>>
stage3Vars == <<s3pc, s3Data, s3Idx, s3Results, s3Ret>>
publisherVars == <<ppc, pRows, pIdx, pPublished, pCalls, pRet, pRuns>>
racerVars == <<qpc, qRows, qIdx, qPublished>>
batchVars == <<b2pc, b2Data, b2Idx, b2Out, b2Ret>>
mainVars == <<mpc, mPhase, mSample, mSuccess, exitCode>>
restVars == <<racerVars, batchVars, mainVars, trends>>
pipeVars == <<storeVars, orchVars, stage3Vars, publisherVars, restVars>>

vars == <<callerVars, contentVars, pipeVars, lastLm>>

----------------------------------------------------------------------------
(* Bounds of the model *)
MaxRetries == 3
MaxBackoff == 5

(* Program constants *)
DefaultRetries == 3
DefaultBackoff == 5

CATEGORY_NOT_RELEVANT == "Not Relevant"
VALID_CATEGORIES == {"Admit Card", "Result", "Job Notification", "Not Relevant"}

Missing == "<missing>"

\* Keywords the model runs on: three of the extractor's job keywords, the
\* last one without any indicator word.
Keywords == {"ssc admit card", "neet result", "application form"}

RECURSIVE SumSeq(_)
SumSeq(s) == IF s = <<>> THEN 0 ELSE Head(s) + SumSeq(Tail(s))

RECURSIVE Pow2(_)
Pow2(n) == IF n = 0 THEN 1 ELSE 2 * Pow2(n - 1)

----------------------------------------------------------------------------
(* Language Model Service, as seen by one call of client.generate_text     *)

\* Failures raised inside the try of the retry loop.
FailureOutcomes ==
    { [kind |-> "network_error"],      \* requests.post raises
      [kind |-> "http_error"],         \* raise_for_status raises (non-2xx)
      [kind |-> "empty_body"],         \* content "" -> json.loads("") raises
      [kind |-> "unparseable_body"] }  \* json.loads raises JSONDecodeError

\* Bodies json.loads accepts.
ResponseCategories == {"Result", "Not Relevant", "Sports", Missing}
ResponseConfidences == {"Low", "Medium", "High", "high", "Unsure", Missing}

ParsedOutcomes ==
    { [kind |-> "not_a_record"] }      \* valid JSON that is not an object
    \cup { [kind |-> "record", category |-> c, confidence |-> f, reasoning |-> r] :
             c \in ResponseCategories, f \in ResponseConfidences,
             r \in {"llm reasoning", Missing} }

\* perform_web_search: substring indicators found in the lower-cased keyword.
perform_web_search(keyword) ==
    CASE keyword = "ssc admit card" ->
           "Found admit card indicator in keyword; Found government/education context"
      [] keyword = "neet result" ->
           "Found result indicator in keyword; Found government/education context"
      [] OTHER -> "No specific job-related context found"

\* dict.get(key, default)
Get(rec, key, default) == IF rec[key] = Missing THEN default ELSE rec[key]

\* The record returned when the for loop ends without break (for ... else).
SentinelResult(web_context) ==
    [category |-> CATEGORY_NOT_RELEVANT, confidence |-> "Low",
     reasoning |-> "ApiPipe quota exceeded or errors",
     web_search_summary |-> web_context]

\* The record returned by the outer `except Exception` handler.
ErrorResult(web_context) ==
    [category |-> CATEGORY_NOT_RELEVANT, confidence |-> "Low",
     reasoning |-> "Error", web_search_summary |-> web_context]

\* The record built from a parsed JSON object.
ValidatedResult(result, web_context) ==
    LET category == Get(result, "category", CATEGORY_NOT_RELEVANT) IN
    [category |-> IF category \notin VALID_CATEGORIES
                  THEN CATEGORY_NOT_RELEVANT ELSE category,
     confidence |-> Get(result, "confidence", "Low"),
     reasoning |-> Get(result, "reasoning", "No reasoning provided"),
     web_search_summary |-> web_context]

\* The loop ended without a parsed body.
AllFailed == [kind |-> "all_failed"]

\* What categorize_keyword returns, given how its retry loop ended: with
\* every attempt failed, or with the value json.loads returned.
categorize_keyword(keyword, served) ==
    LET web_context == perform_web_search(keyword) IN
    CASE served.kind = "all_failed" -> SentinelResult(web_context)
      [] served.kind = "not_a_record" -> ErrorResult(web_context)
      [] OTHER -> ValidatedResult(served, web_context)

\* The outer handlers of categorize_keyword: except json.JSONDecodeError,
\* then except Exception, which catches every exception class.
\* (Variant: only the JSONDecodeError handler.)
OuterHandlerCatchesJsonOnly(exc) == exc = "JSONDecodeError"
OuterHandlerCatches(exc) == TRUE

\* for attempt in range(retries), with n iterations begun so far.
\* (Variant: range(retries + 1).)
LoopContinuesOffByOne(n, r) == n <= r
LoopContinues(n, r) == n < r

\* backoff *= 2. (Variant: the delay is never doubled.)
NextBackoffConstant(b) == b
NextBackoff(b) == b * 2

\* generate_related_topics of the extractor, on the keywords of the model.
generate_related_topics(keyword) ==
    CASE keyword = "ssc admit card" -> "exam hall ticket, download admit card, exam date"
      [] keyword = "neet result" -> "merit list, cut off marks, scorecard"
      [] keyword = "application form" -> "trending topics related to application form"

\* One record of the Trend Source: trend_entry of fallback_extraction, with
\* an interest out of random.randint(50, 95).
TrendEntry(keyword) ==
    [keyword |-> keyword, interest |-> 92,
     related_topics |-> generate_related_topics(keyword)]

\* entry.get(key, default) on a row of a file: a column the file does not
\* have gives the default.
EntryGet(entry, key, default) ==
    IF key \in DOMAIN entry THEN entry[key] ELSE default

\* get_categorization_prompt().format(...): the values put into the prompt.
get_categorization_prompt(entry) ==
    [keyword |-> entry.keyword,
     interest_score |-> EntryGet(entry, "interest_score", 0),
     related_queries |-> EntryGet(entry, "related_queries", "")]

----------------------------------------------------------------------------
(* categorize_keyword as a step machine *)

IdleCaller ==
    /\ ckpc = "idle" /\ entryKw = "" /\ prompt = <<>> /\ retries = 0 /\ backoff0 = 0 /\ backoff = 0
    /\ attempt = 0 /\ calls = 0 /\ slept = <<>> /\ parsed = <<>> /\ ret = <<>>

StartCaller ==
    /\ ckpc = "loop"
    /\ entryKw \in Keywords
    /\ prompt = <<get_categorization_prompt(TrendEntry(entryKw))>>
    /\ retries \in 1..MaxRetries
    /\ backoff0 \in 1..MaxBackoff
    /\ backoff = backoff0
    /\ attempt = 0
    /\ calls = 0
    /\ slept = <<>>
    /\ parsed = <<>>
    /\ ret = <<>>

\* One iteration of the retry loop whose call fails: the inner
\* `except Exception` catches whatever was raised, logs, sleeps, doubles.
AttemptFails ==
    /\ ckpc = "loop"
    /\ LoopContinues(attempt, retries)
    /\ \E o \in FailureOutcomes :
         /\ calls' = calls + 1
         /\ slept' = Append(slept, backoff)
         /\ backoff' = NextBackoff(backoff)
         /\ attempt' = attempt + 1
    /\ UNCHANGED <<ckpc, entryKw, prompt, retries, backoff0, parsed, ret>>
    /\ UNCHANGED <<contentVars, pipeVars>>
    /\ lastLm' = "delay"

\* One iteration whose call returns a body json.loads accepts: break.
AttemptParses ==
    /\ ckpc = "loop"
    /\ LoopContinues(attempt, retries)
    /\ \E o \in ParsedOutcomes :
         /\ calls' = calls + 1
         /\ parsed' = <<o>>
         /\ attempt' = attempt + 1
         /\ ckpc' = "after_loop"
    /\ UNCHANGED <<entryKw, prompt, retries, backoff0, backoff, slept, ret>>
    /\ UNCHANGED <<contentVars, pipeVars>>
    /\ lastLm' = "call"

\* The loop ran out of attempts: the else branch returns the sentinel.
Exhausted ==
    /\ ckpc = "loop"
    /\ ~LoopContinues(attempt, retries)
    /\ ret' = <<categorize_keyword(entryKw, AllFailed)>>
    /\ ckpc' = "returned"
    /\ UNCHANGED <<entryKw, prompt, retries, backoff0, backoff, attempt, calls, slept, parsed>>
    /\ UNCHANGED <<contentVars, pipeVars>>
    /\ UNCHANGED lastLm

\* After break: result.get(...) either builds the record or raises
\* AttributeError, which the outer handlers turn into a record (or not).
BuildResult ==
    /\ ckpc = "after_loop"
    /\ LET result == parsed[1] IN
       IF result.kind = "not_a_record" /\ ~OuterHandlerCatches("AttributeError")
       THEN /\ ret' = <<>>
            /\ ckpc' = "raised"
       ELSE /\ ret' = <<categorize_keyword(entryKw, result)>>
            /\ ckpc' = "returned"
    /\ UNCHANGED <<entryKw, prompt, retries, backoff0, backoff, attempt, calls, slept, parsed>>
    /\ UNCHANGED <<contentVars, pipeVars>>
    /\ UNCHANGED lastLm

NextCaller == AttemptFails \/ AttemptParses \/ Exhausted \/ BuildResult

----------------------------------------------------------------------------
(* generate_content_for_keyword as a step machine *)

STATUS_PENDING == "Pending"
STATUS_RUN_GPT == "Run GPT"
STATUS_POST_LIVE == "Post Live"
STATUS_PUBLISHED == "Published"
STATUS_CONTENT_GENERATED == "Content Generated"
STATUS_NOT_RELEVANT == "Not Relevant"

\* The keys of get_content_prompts(), in dictionary order.
ContentTypes == <<"instagram_post", "blog_article", "youtube_reel", "youtube_thumbnail">>
ContentTypeSet == {ContentTypes[i] : i \in DOMAIN ContentTypes}

NoContent == [t \in ContentTypeSet |-> "absent"]

\* What json.loads(content_str) can return and the loop then stores: a JSON
\* object, or any other JSON value (a list, a string, a number, null).
ParsedContents == {"artifact", "non_record"}

\* A stored value that is an {"error": str(e)} record.
IsErrorMarker(c) == c \notin ({"absent"} \cup ParsedContents)

\* The value None, as generate_content_for_keyword returns it.
None == [none |-> TRUE]

\* What one requests.post + raise_for_status + json() + json.loads can do.
ContentFailures == {"network_error", "http_error", "empty_body", "unparseable_body"}

IdleContent ==
    /\ gpc = "idle" /\ gEntry = [keyword |-> "", category |-> "", status |-> ""]
    /\ gIdx = 0 /\ gCalls = [t \in ContentTypeSet |-> 0]
    /\ gContent = NoContent /\ gRet = <<>>

StartContent ==
    /\ gpc = "check"
    /\ gEntry \in [keyword : Keywords,
                   category : {"Result", "Admit Card", CATEGORY_NOT_RELEVANT},
                   status : {STATUS_PENDING, STATUS_RUN_GPT, STATUS_CONTENT_GENERATED}]
    /\ gIdx = 1
    /\ gCalls = [t \in ContentTypeSet |-> 0]
    /\ gContent = NoContent
    /\ gRet = <<>>

\* The two early returns: status is not Run GPT, or category is Not Relevant.
SkipsEntry(entry) ==
    \/ entry.status # STATUS_RUN_GPT
    \/ entry.category = CATEGORY_NOT_RELEVANT

GenSkip ==
    /\ gpc = "check"
    /\ SkipsEntry(gEntry)
    /\ gRet' = <<None>>
    /\ gpc' = "returned"
    /\ UNCHANGED <<gEntry, gIdx, gCalls, gContent>>
    /\ UNCHANGED <<callerVars, pipeVars>>
    /\ UNCHANGED lastLm

GenBegin ==
    /\ gpc = "check"
    /\ ~SkipsEntry(gEntry)
    /\ gpc' = "loop"
    /\ UNCHANGED <<gEntry, gIdx, gCalls, gContent, gRet>>
    /\ UNCHANGED <<callerVars, pipeVars>>
    /\ UNCHANGED lastLm

\* One pass of the for loop whose call succeeds: whatever json.loads
\* returned is stored as the artifact.
GenCallSucceeds ==
    /\ gpc = "loop"
    /\ gIdx <= Len(ContentTypes)
    /\ \E parsed_content \in ParsedContents :
         LET t == ContentTypes[gIdx] IN
         /\ gCalls' = [gCalls EXCEPT ![t] = @ + 1]
         /\ gContent' = [gContent EXCEPT ![t] = parsed_content]
    /\ gIdx' = gIdx + 1
    /\ UNCHANGED <<gpc, gEntry, gRet>>
    /\ UNCHANGED <<callerVars, pipeVars>>
    /\ lastLm' = "delay"

\* The except branch sits inside the for loop: after a failed call the loop
\* goes on with the next content type.
AfterFailedCall(idx) == idx + 1

\* One pass whose call raises: the try block holds a single call and no
\* loop, and the except branch stores {"error": str(e)} at once.
GenCallFails ==
    /\ gpc = "loop"
    /\ gIdx <= Len(ContentTypes)
    /\ \E e \in ContentFailures :
         LET t == ContentTypes[gIdx] IN
         /\ gCalls' = [gCalls EXCEPT ![t] = @ + 1]
         /\ gContent' = [gContent EXCEPT ![t] = "error:" \o e]
    /\ gIdx' = AfterFailedCall(gIdx)
    /\ UNCHANGED <<gpc, gEntry, gRet>>
    /\ UNCHANGED <<callerVars, pipeVars>>
    /\ lastLm' = "call"

GenReturn ==
    /\ gpc = "loop"
    /\ gIdx > Len(ContentTypes)
    /\ gRet' = <<gContent>>
    /\ gpc' = "returned"
    /\ UNCHANGED <<gEntry, gIdx, gCalls, gContent>>
    /\ UNCHANGED <<callerVars, pipeVars>>
    /\ UNCHANGED lastLm

NextContent == GenSkip \/ GenBegin \/ GenCallSucceeds \/ GenCallFails \/ GenReturn

----------------------------------------------------------------------------
(* Record Store files, the worksheet, and the stages that read and write them *)

NoFile == [exists |-> FALSE, rows |-> <<>>]
File(rows) == [exists |-> TRUE, rows |-> rows]

\* job_keywords of the extractor, cut to two keywords.
JobKeywords == <<"ssc admit card", "neet result">>

\* extract_trending_data: one record per job keyword, in list order.
ExtractedRows == [i \in DOMAIN JobKeywords |-> TrendEntry(JobKeywords[i])]

\* create_sample_data: the two sample records.
SampleRows ==
    << [keyword |-> "ssc cgl admit card 2024", category |-> "Admit Card",
        ai_confidence |-> "High", status |-> STATUS_PENDING],
       [keyword |-> "neet result 2024", category |-> "Result",
        ai_confidence |-> "High", status |-> STATUS_RUN_GPT] >>

\* df.drop_duplicates(subset=['keyword'], keep='first'): of the records with
\* one keyword the first stays, at its place.
RECURSIVE drop_duplicates(_)
drop_duplicates(data) ==
    IF data = <<>> THEN <<>>
    ELSE LET before == drop_duplicates(SubSeq(data, 1, Len(data) - 1))
             record == data[Len(data)] IN
         IF \E i \in DOMAIN before : before[i].keyword = record.keyword
         THEN before
         ELSE Append(before, record)

\* Phase 1 (ImprovedGoogleTrendsExtractor + save_to_csv): writes the phase 1
\* file and returns True, or fails (exception, nothing to save) and writes
\* nothing.
Phase1(res) ==
    \/ /\ res = TRUE
       /\ phase1File' = File(drop_duplicates(ExtractedRows))
    \/ /\ res = FALSE
       /\ UNCHANGED phase1File

\* The ways the retry loop of one entry can end, as drawn in a batch.
BatchOutcomes ==
    { AllFailed,
      [kind |-> "record", category |-> "Result", confidence |-> "High",
       reasoning |-> "llm reasoning"],
      [kind |-> "record", category |-> "Result", confidence |-> "Low",
       reasoning |-> "llm reasoning"] }

\* process_batch: every entry gets the fields of its categorization and
\* status Pending, in input order.
process_batch(data, served) ==
    [i \in DOMAIN data |->
        LET ai_result == categorize_keyword(data[i].keyword, served[i]) IN
        [keyword |-> data[i].keyword,
         category |-> ai_result.category,
         ai_confidence |-> ai_result.confidence,
         status |-> STATUS_PENDING]]

\* GPT1CategorizationAgent.run
Phase2(res) ==
    IF ~phase1File.exists \/ phase1File.rows = <<>>
    THEN /\ res = FALSE
         /\ UNCHANGED categorizedFile
    ELSE /\ res = TRUE
         /\ \E served \in [DOMAIN phase1File.rows -> BatchOutcomes] :
              categorizedFile' = File(process_batch(phase1File.rows, served))

\* str.capitalize() on the confidence strings of the model.
Capitalize(s) ==
    CASE s = "high" -> "High"
      [] s = "MEDIUM" -> "Medium"
      [] OTHER -> s

\* confidence_order.get(c, default)
confidence_order(c, default) ==
    CASE c = "Low" -> 0
      [] c = "Medium" -> 1
      [] c = "High" -> 2
      [] OTHER -> default

\* The condition of auto_approve for one row. (Variants: > instead of >=;
\* == instead of != in the category test.)
ApprovesStrictlyAbove(row, threshold) ==
    /\ confidence_order(Capitalize(row.ai_confidence), 0) > confidence_order(threshold, 1)
    /\ row.category # "Not Relevant"
ApprovesNotRelevant(row, threshold) ==
    /\ confidence_order(Capitalize(row.ai_confidence), 0) >= confidence_order(threshold, 1)
    /\ row.category = "Not Relevant"
Approves(row, threshold) ==
    /\ confidence_order(Capitalize(row.ai_confidence), 0) >= confidence_order(threshold, 1)
    /\ row.category # "Not Relevant"

\* auto_approve: every input row is written out, approved rows with status
\* Run GPT.
auto_approve(rows, threshold) ==
    [i \in DOMAIN rows |->
        IF Approves(rows[i], threshold)
        THEN [rows[i] EXCEPT !.status = STATUS_RUN_GPT]
        ELSE rows[i]]

Thresholds == {"Low", "Medium", "High"}

\* process_approved_entries: the keywords content was generated for.
process_approved_entries(data) ==
    { data[i].keyword : i \in { j \in DOMAIN data : ~SkipsEntry(data[j]) } }

\* (Variant: only the entries content was generated for are written out.)
update_generated_entries_only(original_data, generated) ==
    LET kept == SelectSeq(original_data, LAMBDA e : e.keyword \in generated) IN
    [i \in DOMAIN kept |-> [kept[i] EXCEPT !.status = STATUS_CONTENT_GENERATED]]

\* base_url of update_original_data_with_content_links.
base_url == "https://your-public-host.com/ai-content"

\* key.replace(' ', '_') on the keywords of the model.
Slug(key) ==
    CASE key = "ssc admit card" -> "ssc_admit_card"
      [] key = "neet result" -> "neet_result"
      [] key = "application form" -> "application_form"

\* The columns update_original_data_with_content_links adds to an entry with
\* generated content: the timestamp and the four links under base_url.
ContentColumnsOf ==
    [key \in Keywords |->
        [content_generated_at |-> "timestamp",
         instagram_link |-> base_url \o "/instagram_" \o Slug(key) \o ".txt",
         blog_link |-> base_url \o "/blog_" \o Slug(key) \o ".html",
         youtube_reel_link |-> base_url \o "/reel_" \o Slug(key) \o ".txt",
         youtube_thumbnail_link |-> base_url \o "/thumbnail_" \o Slug(key) \o ".png"]]
ContentColumns(key) == ContentColumnsOf[key]

\* The same columns of an entry without generated content, as the saved
\* file holds them: empty.
EmptyContentColumns ==
    [content_generated_at |-> "", instagram_link |-> "", blog_link |-> "",
     youtube_reel_link |-> "", youtube_thumbnail_link |-> ""]

\* update_original_data_with_content_links: every entry of original_data is
\* appended to the output, those with generated content with a new status,
\* the timestamp and the links.
update_original_data_with_content_links(original_data, generated) ==
    [i \in DOMAIN original_data |->
        LET entry == original_data[i] IN
        IF entry.keyword \in generated
        THEN ContentColumns(entry.keyword) @@
             [entry EXCEPT !.status =
                 IF entry.category = CATEGORY_NOT_RELEVANT
                 THEN STATUS_NOT_RELEVANT ELSE STATUS_CONTENT_GENERATED]
        ELSE EmptyContentColumns @@ entry]

\* The list approved of process_approved_entries.
ApprovedEntries(data) == SelectSeq(data, LAMBDA e : e.status = STATUS_RUN_GPT)

\* The items of generated_content.json when the outcome of the single calls
\* is left open: one item per entry content was generated for, in order.
Untracked == [t \in ContentTypeSet |-> "untracked"]
UntrackedItems(data) ==
    LET generated == SelectSeq(data, LAMBDA e : ~SkipsEntry(e)) IN
    [i \in DOMAIN generated |-> [keyword |-> generated[i].keyword, content |-> Untracked]]

\* The summary loop of run calls .get on the instagram_post and blog_article
\* values of every item: a value that is not a JSON object raises there.
SummaryRaises(results) ==
    \E i \in DOMAIN results :
        \/ results[i].content["instagram_post"] = "non_record"
        \/ results[i].content["blog_article"] = "non_record"

\* GPT2ContentGenerationAgent.run as one step: generated_content.json is
\* saved first; the summary loop then raises (run returns False) or
\* updated_trends_data.csv is saved (run returns True).
Phase3(res) ==
    IF ~approvedFile.exists
    THEN /\ res = FALSE
         /\ UNCHANGED <<updatedFile, contentJson>>
    ELSE LET generated == process_approved_entries(approvedFile.rows) IN
         IF generated = {}
         THEN /\ res = FALSE
              /\ UNCHANGED <<updatedFile, contentJson>>
         ELSE /\ contentJson' = File(UntrackedItems(approvedFile.rows))
              /\ \/ /\ res = FALSE
                    /\ UNCHANGED updatedFile
                 \/ /\ res = TRUE
                    /\ updatedFile' =
                         File(update_original_data_with_content_links(approvedFile.rows, generated))

\* One uploaded row: entry.get(h, '') for the headers of the model. The
\* data file has no 'approval' column.
SheetRow(entry) ==
    [Keyword |-> entry.keyword, Category |-> entry.category,
     Status |-> entry.status, Approval |-> "",
     InstagramLink |-> EntryGet(entry, "instagram_link", ""),
     BlogLink |-> EntryGet(entry, "blog_link", ""),
     YouTubeReelLink |-> EntryGet(entry, "youtube_reel_link", ""),
     YouTubeThumbnailLink |-> EntryGet(entry, "youtube_thumbnail_link", ""),
     PublishedTimestamp |-> EntryGet(entry, "published_timestamp", "")]

NoSheet == [exists |-> FALSE, rows |-> <<>>]

\* The worksheet after worksheet.clear() and insert_row(SHEET_HEADERS, 1).
ClearedSheet == [exists |-> TRUE, rows |-> <<>>]

\* GoogleSheetsIntegration.run: without access nothing happens; otherwise
\* setup_worksheet clears the worksheet, then upload_data_to_sheet returns
\* False when updated_trends_data.csv is missing, and otherwise writes the
\* rows of that file, unless a worksheet call raises on the way.
Phase4(res) ==
    \/ /\ res = FALSE
       /\ UNCHANGED sheet
    \/ IF ~updatedFile.exists
       THEN /\ res = FALSE
            /\ sheet' = ClearedSheet
       ELSE \/ /\ res = TRUE
               /\ sheet' = [exists |-> TRUE,
                            rows |-> [i \in DOMAIN updatedFile.rows |->
                                         SheetRow(updatedFile.rows[i])]]
            \/ /\ res = FALSE
               /\ sheet' = ClearedSheet

\* Publisher.run: the rows that are published, those the two `continue`
\* conditions let through. (Variants: the approval is not looked at; a row
\* that is already Published is let through again.)
PublishesUnapproved(row) ==
    /\ row.Status # "Not Relevant"
    /\ row.Status # STATUS_PUBLISHED
PublishesAgain(row) ==
    ~(row.Approval # "Approved" \/ row.Status = "Not Relevant")
Publishes(row) ==
    /\ ~(row.Approval # "Approved" \/ row.Status = "Not Relevant")
    /\ row.Status # STATUS_PUBLISHED

\* Publisher.run as one step: without the worksheet it returns False;
\* otherwise the Status cell of every row let through is set to Published.
PublisherRun(res) ==
    IF ~sheet.exists
    THEN /\ res = FALSE
         /\ UNCHANGED sheet
    ELSE /\ res = TRUE
         /\ sheet' = [exists |-> TRUE,
                      rows |-> [i \in DOMAIN sheet.rows |->
                                   IF Publishes(sheet.rows[i])
                                   THEN [sheet.rows[i] EXCEPT !.Status = STATUS_PUBLISHED]
                                   ELSE sheet.rows[i]]]

----------------------------------------------------------------------------
(* Operations run one at a time: single phases, the gate, the publisher,  *)
(* a person's edits of the worksheet, and full runs                      *)

NoRunInProgress == opc \in {"idle", "done"}

\* python main.py --phase 1
RunPhase1 ==
    /\ NoRunInProgress
    /\ \E res \in BOOLEAN : Phase1(res)
    /\ UNCHANGED <<categorizedFile, approvedFile, updatedFile, sampleFile, contentJson, sheet, min_confidence>>
    /\ UNCHANGED <<orchVars, callerVars, contentVars, stage3Vars, publisherVars, restVars, lastLm>>

\* python main.py --phase 2
RunPhase2 ==
    /\ NoRunInProgress
    /\ \E res \in BOOLEAN : Phase2(res)
    /\ UNCHANGED <<phase1File, approvedFile, updatedFile, sampleFile, contentJson, sheet, min_confidence>>
    /\ UNCHANGED <<orchVars, callerVars, contentVars, stage3Vars, publisherVars, restVars, lastLm>>

\* auto_approve called with any threshold
RunAutoApprove ==
    /\ NoRunInProgress
    /\ categorizedFile.exists
    /\ \E threshold \in Thresholds :
         /\ approvedFile' = File(auto_approve(categorizedFile.rows, threshold))
         /\ min_confidence' = threshold
    /\ UNCHANGED <<phase1File, categorizedFile, updatedFile, sampleFile, contentJson, sheet>>
    /\ UNCHANGED <<orchVars, callerVars, contentVars, stage3Vars, publisherVars, restVars, lastLm>>

\* python auto_approve.py: the __main__ block calls auto_approve() with its
\* defaults, so the threshold is 'Medium'.
RunGateScript ==
    /\ NoRunInProgress
    /\ categorizedFile.exists
    /\ approvedFile' = File(auto_approve(categorizedFile.rows, "Medium"))
    /\ min_confidence' = "Medium"
    /\ UNCHANGED <<phase1File, categorizedFile, updatedFile, sampleFile, contentJson, sheet>>
    /\ UNCHANGED <<orchVars, callerVars, contentVars, stage3Vars, publisherVars, restVars, lastLm>>

\* python main.py --phase 3
RunPhase3 ==
    /\ NoRunInProgress
    /\ \E res \in BOOLEAN : Phase3(res)
    /\ UNCHANGED <<phase1File, categorizedFile, approvedFile, sampleFile, sheet, min_confidence>>
    /\ UNCHANGED <<orchVars, callerVars, contentVars, stage3Vars, publisherVars, restVars, lastLm>>

\* python main.py --phase 4
RunPhase4 ==
    /\ NoRunInProgress
    /\ \E res \in BOOLEAN : Phase4(res)
    /\ UNCHANGED <<fileVars, min_confidence>>
    /\ UNCHANGED <<orchVars, callerVars, contentVars, stage3Vars, publisherVars, restVars, lastLm>>

\* python -m scripts.publish_content
RunPublish ==
    /\ NoRunInProgress
    /\ \E res \in BOOLEAN : PublisherRun(res)
    /\ UNCHANGED <<fileVars, min_confidence>>
    /\ UNCHANGED <<orchVars, callerVars, contentVars, stage3Vars, publisherVars, restVars, lastLm>>

\* A person's edits of a worksheet row, as the manual workflow
\* instructions and the publisher's Approval column describe them.
SetCell(i, column, value) ==
    sheet' = [sheet EXCEPT !.rows[i][column] = value]

HumanSetRunGpt ==
    /\ NoRunInProgress
    /\ \E i \in DOMAIN sheet.rows :
         /\ sheet.rows[i].Status = STATUS_PENDING
         /\ SetCell(i, "Status", STATUS_RUN_GPT)
    /\ UNCHANGED <<fileVars, min_confidence>>
    /\ UNCHANGED <<orchVars, callerVars, contentVars, stage3Vars, publisherVars, restVars, lastLm>>

HumanSetPostLive ==
    /\ NoRunInProgress
    /\ \E i \in DOMAIN sheet.rows :
         /\ sheet.rows[i].Status = STATUS_CONTENT_GENERATED
         /\ SetCell(i, "Status", STATUS_POST_LIVE)
    /\ UNCHANGED <<fileVars, min_confidence>>
    /\ UNCHANGED <<orchVars, callerVars, contentVars, stage3Vars, publisherVars, restVars, lastLm>>

HumanApprove ==
    /\ NoRunInProgress
    /\ \E i \in DOMAIN sheet.rows :
         /\ sheet.rows[i].Approval # "Approved"
         /\ SetCell(i, "Approval", "Approved")
    /\ UNCHANGED <<fileVars, min_confidence>>
    /\ UNCHANGED <<orchVars, callerVars, contentVars, stage3Vars, publisherVars, restVars, lastLm>>

----------------------------------------------------------------------------
(* run_all_phases as a step machine: one step per phase *)

IdleOrchestrator ==
    /\ opc = "idle" /\ completed_phases = 0 /\ started = {} /\ failed = {}
    /\ p3Input = NoFile /\ verdict = "none"

\* display_banner, check_prerequisites: a failed check returns False at once.
BeginRun ==
    /\ completed_phases' = 0
    /\ started' = {}
    /\ failed' = {}
    /\ p3Input' = NoFile
    /\ \E prerequisites \in BOOLEAN :
         IF prerequisites
         THEN opc' = "phase1" /\ verdict' = "none"
         ELSE opc' = "done" /\ verdict' = "False"

\* run_all_phases is called.
StartRun ==
    /\ NoRunInProgress
    /\ BeginRun
    /\ UNCHANGED <<storeVars, callerVars, contentVars, stage3Vars, publisherVars, restVars, lastLm>>

\* Phase 1; on failure create_sample_data_if_needed writes
\* data/sample_trends_data.csv and the run goes on.
OrchPhase1 ==
    /\ opc = "phase1"
    /\ started' = started \cup {1}
    /\ \E res \in BOOLEAN :
         /\ Phase1(res)
         /\ IF res
            THEN /\ completed_phases' = completed_phases + 1
                 /\ UNCHANGED <<sampleFile, failed>>
            ELSE /\ sampleFile' = File(SampleRows)
                 /\ failed' = failed \cup {1}
                 /\ UNCHANGED completed_phases
    /\ opc' = "phase2"
    /\ UNCHANGED <<categorizedFile, approvedFile, updatedFile, contentJson, sheet, min_confidence>>
    /\ UNCHANGED <<p3Input, verdict, callerVars, contentVars, stage3Vars, publisherVars, restVars, lastLm>>

\* Where run_all_phases goes when phase 2 returned False: it returns.
\* (Variant: it goes on to phase 3, as it does after a phase 3 failure.)
ContinuesAfterPhase2Failure == "phase3"
AfterPhase2Failure == "done"

\* Phase 2; on failure the run stops and returns False.
OrchPhase2 ==
    /\ opc = "phase2"
    /\ started' = started \cup {2}
    /\ \E res \in BOOLEAN :
         /\ Phase2(res)
         /\ IF res
            THEN /\ completed_phases' = completed_phases + 1
                 /\ opc' = "phase3"
                 /\ UNCHANGED <<failed, verdict>>
            ELSE /\ failed' = failed \cup {2}
                 /\ opc' = AfterPhase2Failure
                 /\ verdict' = IF opc' = "done" THEN "False" ELSE verdict
                 /\ UNCHANGED completed_phases
    /\ UNCHANGED <<phase1File, approvedFile, updatedFile, sampleFile, contentJson, sheet, min_confidence>>
    /\ UNCHANGED <<p3Input, callerVars, contentVars, stage3Vars, publisherVars, restVars, lastLm>>

\* Where run_all_phases goes when phase 3 returned False: on to phase 4.
\* (Variant: it returns, as it does after a phase 2 failure.)
StopsAfterPhase3Failure == "done"
AfterPhase3Failure == "phase4"

\* Phase 3, which loads data/phase2_approved.csv as it is on disk; a failure
\* is logged and the run goes on.
OrchPhase3 ==
    /\ opc = "phase3"
    /\ started' = started \cup {3}
    /\ p3Input' = approvedFile
    /\ \E res \in BOOLEAN :
         /\ Phase3(res)
         /\ IF res
            THEN /\ completed_phases' = completed_phases + 1
                 /\ opc' = "phase4"
                 /\ UNCHANGED <<failed, verdict>>
            ELSE /\ failed' = failed \cup {3}
                 /\ opc' = AfterPhase3Failure
                 /\ verdict' = IF opc' = "done" THEN "False" ELSE verdict
                 /\ UNCHANGED completed_phases
    /\ UNCHANGED <<phase1File, categorizedFile, approvedFile, sampleFile, sheet, min_confidence>>
    /\ UNCHANGED <<callerVars, contentVars, stage3Vars, publisherVars, restVars, lastLm>>

\* Phase 4.
OrchPhase4 ==
    /\ opc = "phase4"
    /\ started' = started \cup {4}
    /\ \E res \in BOOLEAN :
         /\ Phase4(res)
         /\ IF res
            THEN /\ completed_phases' = completed_phases + 1
                 /\ UNCHANGED failed
            ELSE /\ failed' = failed \cup {4}
                 /\ UNCHANGED completed_phases
    /\ opc' = "summary"
    /\ UNCHANGED <<fileVars, min_confidence>>
    /\ UNCHANGED <<p3Input, verdict, callerVars, contentVars, stage3Vars, publisherVars, restVars, lastLm>>

\* return completed_phases >= 2. (Variant: one completed phase is enough.)
SucceedsWithOnePhase(n) == n >= 1
Succeeds(n) == n >= 2

\* The execution summary.
OrchSummary ==
    /\ opc = "summary"
    /\ verdict' = IF Succeeds(completed_phases) THEN "True" ELSE "False"
    /\ opc' = "done"
    /\ UNCHANGED <<storeVars, callerVars, contentVars, stage3Vars, publisherVars, restVars, lastLm>>
    /\ UNCHANGED <<completed_phases, started, failed, p3Input>>

----------------------------------------------------------------------------
(* GPT1CategorizationAgent.run as a step machine: one step per entry of     *)
(* data, with categorize_keyword run in between                            *)

IdleBatch ==
    /\ b2pc = "idle" /\ b2Data = <<>> /\ b2Idx = 0 /\ b2Out = <<>> /\ b2Ret = "none"

\* run, called once on a new agent: without data/phase1_trends_data.csv, or
\* with no row in it, run returns False; otherwise process_batch starts with
\* categorized_data = [].
Stage2Load ==
    /\ b2pc = "idle"
    /\ NoRunInProgress
    /\ IF ~phase1File.exists \/ phase1File.rows = <<>>
       THEN /\ b2Ret' = "False"
            /\ b2pc' = "done"
            /\ b2Data' = <<>>
            /\ b2Idx' = 0
       ELSE /\ b2Ret' = "none"
            /\ b2pc' = "entries"
            /\ b2Data' = phase1File.rows
            /\ b2Idx' = 1
    /\ b2Out' = <<>>
    /\ UNCHANGED <<storeVars, orchVars, stage3Vars, publisherVars, racerVars, mainVars, trends>>
    /\ UNCHANGED <<callerVars, contentVars, lastLm>>

\* for entry in data: categorize_keyword(entry) is called with its default
\* retries and backoff.
Stage2Entry ==
    /\ b2pc = "entries"
    /\ b2Idx <= Len(b2Data)
    /\ ckpc' = "loop"
    /\ entryKw' = b2Data[b2Idx].keyword
    /\ prompt' = <<get_categorization_prompt(b2Data[b2Idx])>>
    /\ retries' = DefaultRetries
    /\ backoff0' = DefaultBackoff
    /\ backoff' = DefaultBackoff
    /\ attempt' = 0
    /\ calls' = 0
    /\ slept' = <<>>
    /\ parsed' = <<>>
    /\ ret' = <<>>
    /\ b2pc' = "categorizing"
    /\ UNCHANGED <<b2Data, b2Idx, b2Out, b2Ret>>
    /\ UNCHANGED <<storeVars, orchVars, stage3Vars, publisherVars, racerVars, mainVars, trends>>
    /\ UNCHANGED <<contentVars, lastLm>>

\* entry.update({...}) and categorized_data.append(entry). (Variant: an
\* entry whose attempts all failed is left out of categorized_data.)
AppendUnlessSentinel(categorized_data, entry, ai_result) ==
    IF ai_result.reasoning = "ApiPipe quota exceeded or errors"
    THEN categorized_data
    ELSE Append(categorized_data,
                [keyword |-> entry.keyword, category |-> ai_result.category,
                 ai_confidence |-> ai_result.confidence,
                 ai_reasoning |-> ai_result.reasoning, status |-> STATUS_PENDING])
AppendCategorized(categorized_data, entry, ai_result) ==
    Append(categorized_data,
           [keyword |-> entry.keyword, category |-> ai_result.category,
            ai_confidence |-> ai_result.confidence,
            ai_reasoning |-> ai_result.reasoning, status |-> STATUS_PENDING])

\* categorize_keyword has returned: the entry is updated and appended, then
\* add_delay('openai').
Stage2Collect ==
    /\ b2pc = "categorizing"
    /\ ckpc = "returned"
    /\ b2Out' = AppendCategorized(b2Out, b2Data[b2Idx], ret[1])
    /\ lastLm' = "delay"
    /\ b2Idx' = b2Idx + 1
    /\ b2pc' = "entries"
    /\ UNCHANGED <<b2Data, b2Ret>>
    /\ UNCHANGED <<storeVars, orchVars, stage3Vars, publisherVars, racerVars, mainVars, trends>>
    /\ UNCHANGED <<callerVars, contentVars>>

\* if not categorized_data: return False; otherwise the list is saved and run
\* returns True. (Variant: a list with no relevant entry also counts as
\* nothing categorized.)
NothingRelevantCategorized(categorized_data) ==
    \A i \in DOMAIN categorized_data :
        categorized_data[i].category = CATEGORY_NOT_RELEVANT
NothingCategorized(categorized_data) == categorized_data = <<>>

\* After the loop: save_data_to_csv('phase2_categorized_data.csv') and run
\* returns True.
Stage2Save ==
    /\ b2pc = "entries"
    /\ b2Idx > Len(b2Data)
    /\ IF NothingCategorized(b2Out)
       THEN /\ b2Ret' = "False"
            /\ UNCHANGED categorizedFile
       ELSE /\ b2Ret' = "True"
            /\ categorizedFile' = File(b2Out)
    /\ b2pc' = "done"
    /\ UNCHANGED <<b2Data, b2Idx, b2Out>>
    /\ UNCHANGED <<phase1File, approvedFile, updatedFile, sampleFile, contentJson, sheet, min_confidence>>
    /\ UNCHANGED <<orchVars, stage3Vars, publisherVars, racerVars, mainVars, trends>>
    /\ UNCHANGED <<callerVars, contentVars, lastLm>>

NextBatch ==
    \/ Stage2Load \/ Stage2Entry \/ Stage2Collect \/ Stage2Save
    \/ AttemptFails \/ AttemptParses \/ Exhausted \/ BuildResult

----------------------------------------------------------------------------
(* GPT2ContentGenerationAgent.run as a step machine: one step per entry of  *)
(* the list approved, with generate_content_for_keyword run in between     *)

IdleStage3 ==
    /\ s3pc = "idle" /\ s3Data = <<>> /\ s3Idx = 0 /\ s3Results = <<>>
    /\ s3Ret = "none"

\* run: load_data_from_csv('phase2_approved.csv'); a missing file raises and
\* run returns False. process_approved_entries then starts with results = [].
Stage3Load ==
    /\ s3pc \in {"idle", "done"}
    /\ NoRunInProgress
    /\ IF ~approvedFile.exists
       THEN /\ s3Ret' = "False"
            /\ s3pc' = "done"
            /\ s3Data' = <<>>
            /\ s3Idx' = 0
       ELSE /\ s3Ret' = "none"
            /\ s3pc' = "entries"
            /\ s3Data' = approvedFile.rows
            /\ s3Idx' = 1
    /\ s3Results' = <<>>
    /\ UNCHANGED <<storeVars, orchVars, callerVars, contentVars, publisherVars, restVars, lastLm>>

\* for entry in approved: generate_content_for_keyword(entry) is called.
Stage3Entry ==
    /\ s3pc = "entries"
    /\ s3Idx <= Len(ApprovedEntries(s3Data))
    /\ LET entry == ApprovedEntries(s3Data)[s3Idx] IN
         gEntry' = [keyword |-> entry.keyword, category |-> entry.category,
                    status |-> entry.status]
    /\ gpc' = "check"
    /\ gIdx' = 1
    /\ gCalls' = [t \in ContentTypeSet |-> 0]
    /\ gContent' = NoContent
    /\ gRet' = <<>>
    /\ s3pc' = "generating"
    /\ UNCHANGED <<s3Data, s3Idx, s3Results, s3Ret>>
    /\ UNCHANGED <<storeVars, orchVars, callerVars, publisherVars, restVars, lastLm>>

\* if content: results.append(content)
Stage3Collect ==
    /\ s3pc = "generating"
    /\ gpc = "returned"
    /\ s3Results' = IF gRet[1] = None
                    THEN s3Results
                    ELSE Append(s3Results, [keyword |-> gEntry.keyword, content |-> gRet[1]])
    /\ s3Idx' = s3Idx + 1
    /\ s3pc' = "entries"
    /\ UNCHANGED <<s3Data, s3Ret>>
    /\ UNCHANGED <<storeVars, orchVars, callerVars, contentVars, publisherVars, restVars, lastLm>>

\* What json.dump keeps of a content map: the artifact, or that the value is
\* an {"error": ...} record.
Saved(content) ==
    [t \in ContentTypeSet |-> IF IsErrorMarker(content[t]) THEN "error" ELSE content[t]]

\* After the loop: with no content run returns False and writes nothing;
\* otherwise save_json, then the summary loop, which raises (run returns
\* False) or is followed by update_original_data_with_content_links and
\* save_data_to_csv('updated_trends_data.csv'), and run returns True.
Stage3Save ==
    /\ s3pc = "entries"
    /\ s3Idx > Len(ApprovedEntries(s3Data))
    /\ IF s3Results = <<>>
       THEN /\ s3Ret' = "False"
            /\ UNCHANGED <<updatedFile, contentJson>>
       ELSE /\ contentJson' =
                 File([i \in DOMAIN s3Results |->
                         [keyword |-> s3Results[i].keyword,
                          content |-> Saved(s3Results[i].content)]])
            /\ IF SummaryRaises(s3Results)
               THEN /\ s3Ret' = "False"
                    /\ UNCHANGED updatedFile
               ELSE /\ s3Ret' = "True"
                    /\ updatedFile' =
                         File(update_original_data_with_content_links(
                                 s3Data, {s3Results[i].keyword : i \in DOMAIN s3Results}))
    /\ s3pc' = "done"
    /\ UNCHANGED <<s3Data, s3Idx, s3Results>>
    /\ UNCHANGED <<phase1File, categorizedFile, approvedFile, sampleFile, sheet, min_confidence>>
    /\ UNCHANGED <<orchVars, callerVars, contentVars, publisherVars, restVars, lastLm>>

NextStage3 ==
    \/ Stage3Load \/ Stage3Entry \/ Stage3Collect \/ Stage3Save
    \/ GenSkip \/ GenBegin \/ GenCallSucceeds \/ GenCallFails \/ GenReturn

----------------------------------------------------------------------------
(* Publisher.run as a step machine: one step per worksheet row *)

MaxPublishRuns == 2

IdlePublisher ==
    /\ ppc = "idle" /\ pRows = <<>> /\ pIdx = 0 /\ pPublished = <<>>
    /\ pCalls = <<>> /\ pRet = "none" /\ pRuns = 0

\* open_sheet and get_rows: without the worksheet run returns False;
\* otherwise the rows are read once, before the loop.
PublishOpen ==
    /\ ppc \in {"idle", "done"}
    /\ NoRunInProgress
    /\ pRuns < MaxPublishRuns
    /\ pRuns' = pRuns + 1
    /\ pPublished' = <<>>
    /\ pCalls' = <<>>
    /\ IF ~sheet.exists
       THEN /\ pRet' = "False"
            /\ ppc' = "done"
            /\ pRows' = <<>>
            /\ pIdx' = 0
       ELSE /\ pRet' = "none"
            /\ ppc' = "rows"
            /\ pRows' = sheet.rows
            /\ pIdx' = 1
    /\ UNCHANGED <<storeVars, orchVars, stage3Vars, callerVars, contentVars, restVars, lastLm>>

\* The row the skip conditions look at: the one get_rows returned before the
\* loop, not the worksheet row as it is now. (Variant: the row is read again.)
RowCheckedAfresh(snapshot, current) == current
RowChecked(snapshot, current) == snapshot

\* row.get(key) on a row of get_all_records, as a sequence: the cell of the
\* column, or nothing (None) for a key that is no header of the worksheet.
RowGet(row, key) == IF key \in DOMAIN row THEN <<row[key]>> ELSE <<>>

\* The three mock_publish_* calls of one row, in order, with the link
\* arguments they are given; 'Youtube Thumbnail Link' is the key run uses.
MockPublishCalls(row) ==
    <<[fn |-> "mock_publish_instagram", keyword |-> row.Keyword,
       link |-> RowGet(row, "InstagramLink")],
      [fn |-> "mock_publish_blog", keyword |-> row.Keyword,
       link |-> RowGet(row, "BlogLink")],
      [fn |-> "mock_publish_youtube", keyword |-> row.Keyword,
       link |-> RowGet(row, "YoutubeThumbnailLink")]>>

\* One pass of the loop over rows: the row is skipped, or it is passed to the
\* mock_publish_* calls and update_status writes Published to its Status cell.
PublishRow ==
    /\ ppc = "rows"
    /\ pIdx <= Len(pRows)
    /\ IF Publishes(RowChecked(pRows[pIdx], sheet.rows[pIdx]))
       THEN /\ pPublished' = Append(pPublished, pRows[pIdx].Keyword)
            /\ pCalls' = pCalls \o MockPublishCalls(pRows[pIdx])
            /\ SetCell(pIdx, "Status", STATUS_PUBLISHED)
       ELSE UNCHANGED <<pPublished, pCalls, sheet>>
    /\ pIdx' = pIdx + 1
    /\ UNCHANGED <<ppc, pRows, pRet, pRuns>>
    /\ UNCHANGED <<fileVars, min_confidence, orchVars, stage3Vars, callerVars, contentVars, restVars, lastLm>>

\* The loop is over: run returns True.
PublishDone ==
    /\ ppc = "rows"
    /\ pIdx > Len(pRows)
    /\ pRet' = "True"
    /\ ppc' = "done"
    /\ UNCHANGED <<pRows, pIdx, pPublished, pCalls, pRuns>>
    /\ UNCHANGED <<storeVars, orchVars, stage3Vars, callerVars, contentVars, restVars, lastLm>>

NextPublisher == PublishOpen \/ PublishRow \/ PublishDone

\* A second Publisher process started against the same worksheet: nothing in
\* open_sheet, get_rows or update_status waits for the other process.
IdleRacer ==
    /\ qpc = "idle" /\ qRows = <<>> /\ qIdx = 0 /\ qPublished = <<>>

Publish2Open ==
    /\ qpc = "idle"
    /\ NoRunInProgress
    /\ qPublished' = <<>>
    /\ IF ~sheet.exists
       THEN /\ qpc' = "done"
            /\ qRows' = <<>>
            /\ qIdx' = 0
       ELSE /\ qpc' = "rows"
            /\ qRows' = sheet.rows
            /\ qIdx' = 1
    /\ UNCHANGED <<storeVars, orchVars, stage3Vars, publisherVars, batchVars, mainVars, trends>>
    /\ UNCHANGED <<callerVars, contentVars, lastLm>>

Publish2Row ==
    /\ qpc = "rows"
    /\ qIdx <= Len(qRows)
    /\ IF Publishes(RowChecked(qRows[qIdx], sheet.rows[qIdx]))
       THEN /\ qPublished' = Append(qPublished, qRows[qIdx].Keyword)
            /\ SetCell(qIdx, "Status", STATUS_PUBLISHED)
       ELSE UNCHANGED <<qPublished, sheet>>
    /\ qIdx' = qIdx + 1
    /\ UNCHANGED <<qpc, qRows>>
    /\ UNCHANGED <<fileVars, min_confidence, orchVars, stage3Vars, publisherVars>>
    /\ UNCHANGED <<batchVars, mainVars, trends, callerVars, contentVars, lastLm>>

Publish2Done ==
    /\ qpc = "rows"
    /\ qIdx > Len(qRows)
    /\ qpc' = "done"
    /\ UNCHANGED <<qRows, qIdx, qPublished>>
    /\ UNCHANGED <<storeVars, orchVars, stage3Vars, publisherVars, batchVars, mainVars, trends>>
    /\ UNCHANGED <<callerVars, contentVars, lastLm>>

NextRacer == Publish2Open \/ Publish2Row \/ Publish2Done

----------------------------------------------------------------------------
(* main as a step machine: the arguments are parsed, then --sample, one    *)
(* phase, or run_all_phases phase by phase                                 *)

IdleMain ==
    /\ mpc = "idle" /\ mPhase = 0 /\ mSample = FALSE /\ mSuccess = "none"
    /\ exitCode = "none"

\* if not success: exit(1); a main that returns ends the process with 0.
\* (Variant: the result is not looked at, as in publish_content.main.)
ExitCodeIgnoresFailure(success) == 0
ExitCode(success) == IF success THEN 0 ELSE 1

\* A new process: parser.parse_args() gives --phase, one of 1..4 or absent,
\* and the flag --sample; nothing is left of the process before.
MainStart ==
    /\ mpc \in {"idle", "exited"}
    /\ NoRunInProgress
    /\ mpc' = "parsed"
    /\ mPhase' \in 0..4
    /\ mSample' \in BOOLEAN
    /\ mSuccess' = "none"
    /\ exitCode' = "none"
    /\ opc' = "idle" /\ completed_phases' = 0 /\ started' = {} /\ failed' = {}
    /\ p3Input' = NoFile /\ verdict' = "none"
    /\ UNCHANGED <<storeVars, stage3Vars, publisherVars, racerVars, batchVars, trends>>
    /\ UNCHANGED <<callerVars, contentVars, lastLm>>

\* if args.sample: create_sample_data_if_needed(); return
MainSample ==
    /\ mpc = "parsed"
    /\ mSample
    /\ sampleFile' = File(SampleRows)
    /\ exitCode' = 0
    /\ mpc' = "exited"
    /\ UNCHANGED <<mPhase, mSample, mSuccess>>
    /\ UNCHANGED <<phase1File, categorizedFile, approvedFile, updatedFile, contentJson, sheet, min_confidence>>
    /\ UNCHANGED <<orchVars, stage3Vars, publisherVars, racerVars, batchVars, trends>>
    /\ UNCHANGED <<callerVars, contentVars, lastLm>>

\* if args.phase: success = orchestrator.run_phaseN(); if not success: exit(1)
MainPhase ==
    /\ mpc = "parsed"
    /\ ~mSample
    /\ mPhase \in 1..4
    /\ \E res \in BOOLEAN :
         /\ \/ /\ mPhase = 1
               /\ Phase1(res)
               /\ UNCHANGED <<categorizedFile, approvedFile, updatedFile, contentJson, sheet>>
            \/ /\ mPhase = 2
               /\ Phase2(res)
               /\ UNCHANGED <<phase1File, approvedFile, updatedFile, contentJson, sheet>>
            \/ /\ mPhase = 3
               /\ Phase3(res)
               /\ UNCHANGED <<phase1File, categorizedFile, approvedFile, sheet>>
            \/ /\ mPhase = 4
               /\ Phase4(res)
               /\ UNCHANGED <<phase1File, categorizedFile, approvedFile, updatedFile, contentJson>>
         /\ mSuccess' = IF res THEN "True" ELSE "False"
         /\ exitCode' = ExitCode(res)
    /\ mpc' = "exited"
    /\ UNCHANGED <<mPhase, mSample, sampleFile, min_confidence>>
    /\ UNCHANGED <<orchVars, stage3Vars, publisherVars, racerVars, batchVars, trends>>
    /\ UNCHANGED <<callerVars, contentVars, lastLm>>

\* else: success = orchestrator.run_all_phases()
MainRunAll ==
    /\ mpc = "parsed"
    /\ ~mSample
    /\ mPhase = 0
    /\ BeginRun
    /\ mpc' = "run_all"
    /\ UNCHANGED <<mPhase, mSample, mSuccess, exitCode>>
    /\ UNCHANGED <<storeVars, stage3Vars, publisherVars, racerVars, batchVars, trends>>
    /\ UNCHANGED <<callerVars, contentVars, lastLm>>

\* The phases of the run_all_phases call that main made.
MainOrch ==
    /\ mpc = "run_all"
    /\ (OrchPhase1 \/ OrchPhase2 \/ OrchPhase3 \/ OrchPhase4 \/ OrchSummary)

\* run_all_phases has returned: if not success: exit(1)
MainExit ==
    /\ mpc = "run_all"
    /\ opc = "done"
    /\ mSuccess' = verdict
    /\ exitCode' = ExitCode(verdict = "True")
    /\ mpc' = "exited"
    /\ UNCHANGED <<mPhase, mSample>>
    /\ UNCHANGED <<storeVars, orchVars, stage3Vars, publisherVars, racerVars, batchVars, trends>>
    /\ UNCHANGED <<callerVars, contentVars, lastLm>>

NextMain ==
    \/ MainStart \/ MainSample \/ MainPhase \/ MainRunAll \/ MainOrch \/ MainExit

----------------------------------------------------------------------------
(* save_to_csv of phase 1 on whatever list the Trend Source yields         *)

MaxTrends == 3

\* The interest values of the model: the ends of random.randint(50, 95).
Interests == {50, 95}

TrendRecords == [keyword : {JobKeywords[i] : i \in DOMAIN JobKeywords}, interest : Interests]

\* save_to_csv(data): with no data it returns False and writes nothing;
\* otherwise the records left by drop_duplicates are written.
SaveTrends ==
    /\ NoRunInProgress
    /\ IF trends = <<>>
       THEN UNCHANGED phase1File
       ELSE phase1File' = File(drop_duplicates(trends))
    /\ UNCHANGED <<categorizedFile, approvedFile, updatedFile, sampleFile, contentJson, sheet, min_confidence>>
    /\ UNCHANGED <<orchVars, stage3Vars, publisherVars, racerVars, batchVars, mainVars, trends>>
    /\ UNCHANGED <<callerVars, contentVars, lastLm>>

IdleRest == IdleRacer /\ IdleBatch /\ IdleMain /\ trends = <<>> /\ lastLm = "none"

InitStores ==
    /\ phase1File = NoFile /\ categorizedFile = NoFile /\ approvedFile = NoFile
    /\ updatedFile = NoFile /\ sampleFile = NoFile /\ contentJson = NoFile
    /\ sheet = NoSheet /\ min_confidence = "Medium"

IdlePipeline == InitStores /\ IdleOrchestrator /\ IdleStage3 /\ IdlePublisher /\ IdleRest

\* Stages and edits, run one at a time in any order.
NextStages ==
    \/ RunPhase1 \/ RunPhase2 \/ RunGateScript \/ RunPhase3 \/ RunPhase4
    \/ RunPublish
    \/ HumanSetRunGpt \/ HumanSetPostLive \/ HumanApprove

\* Full runs, with the gate run by hand between them.
NextRuns ==
    \/ StartRun \/ OrchPhase1 \/ OrchPhase2 \/ OrchPhase3 \/ OrchPhase4 \/ OrchSummary
    \/ RunAutoApprove

----------------------------------------------------------------------------
(* Specifications *)

InitCaller == StartCaller /\ IdleContent /\ IdlePipeline
SpecCaller == InitCaller /\ [][NextCaller]_vars

InitContent == IdleCaller /\ StartContent /\ IdlePipeline
SpecContent == InitContent /\ [][NextContent]_vars

Init == IdleCaller /\ IdleContent /\ IdlePipeline
Next == NextStages
Spec == Init /\ [][Next]_vars

SpecRuns == Init /\ [][NextRuns]_vars

\* The gate alone, on every categorized file process_batch can leave behind:
\* rows with a valid category, any confidence text and status Pending.
GateConfidences == {"Low", "Medium", "High", "high", "Unsure"}
GateRows(keyword) ==
    [keyword : {keyword}, category : VALID_CATEGORIES,
     ai_confidence : GateConfidences, status : {STATUS_PENDING}]

InitGate ==
    /\ IdleCaller /\ IdleContent /\ IdleOrchestrator /\ IdleStage3 /\ IdlePublisher
    /\ IdleRest
    /\ phase1File = File(ExtractedRows)
    /\ \E n \in 1..Len(JobKeywords) :
         \E rows \in [1..n -> UNION {GateRows(JobKeywords[i]) : i \in 1..n}] :
            /\ \A i \in 1..n : rows[i].keyword = JobKeywords[i]
            /\ categorizedFile = File(rows)
    /\ approvedFile = NoFile /\ updatedFile = NoFile /\ sampleFile = NoFile
    /\ contentJson = NoFile /\ sheet = NoSheet /\ min_confidence = "Medium"

SpecGate == InitGate /\ [][RunAutoApprove]_vars

\* Content generation runs, entry by entry, on a phase2_approved.csv as the
\* gate or an edit by hand can leave it, with at most one entry that content
\* is generated for.
Stage3FirstRows ==
    [keyword : {JobKeywords[1]}, category : {"Admit Card", CATEGORY_NOT_RELEVANT},
     ai_confidence : {"High"}, status : {STATUS_PENDING, STATUS_RUN_GPT}]
Stage3SkippedRows ==
    { [keyword |-> JobKeywords[2], category |-> "Result",
       ai_confidence |-> "Low", status |-> STATUS_PENDING],
      [keyword |-> JobKeywords[2], category |-> CATEGORY_NOT_RELEVANT,
       ai_confidence |-> "High", status |-> STATUS_RUN_GPT] }
Stage3Files ==
    { NoFile }
    \cup { File(<<first>>) : first \in Stage3FirstRows }
    \cup { File(<<first, second>>) :
             first \in Stage3FirstRows, second \in Stage3SkippedRows }
    \cup { File(<< [keyword |-> JobKeywords[1], category |-> "Admit Card",
                    ai_confidence |-> "Low", status |-> STATUS_PENDING],
                   [keyword |-> JobKeywords[2], category |-> "Result",
                    ai_confidence |-> "High", status |-> STATUS_RUN_GPT] >>) }

InitStage3 ==
    /\ IdleCaller /\ IdleContent /\ IdleOrchestrator /\ IdleStage3 /\ IdlePublisher
    /\ IdleRest
    /\ phase1File = File(ExtractedRows) /\ categorizedFile = NoFile
    /\ approvedFile \in Stage3Files
    /\ updatedFile = NoFile /\ sampleFile = NoFile /\ contentJson = NoFile
    /\ sheet = NoSheet /\ min_confidence = "Medium"

SpecStage3 == InitStage3 /\ [][NextStage3]_vars

\* Publisher runs, row by row and with no edit in between, on every worksheet
\* of up to two rows: any status, with or without an approval.
SheetStatusCells ==
    {STATUS_PENDING, STATUS_RUN_GPT, STATUS_CONTENT_GENERATED, STATUS_POST_LIVE,
     STATUS_PUBLISHED, STATUS_NOT_RELEVANT}
SheetApprovalCells == {"", "Approved", "Rejected"}
SheetRows(keyword) ==
    { [Keyword |-> keyword, Category |-> c, Status |-> st, Approval |-> a] @@
      SheetRow([keyword |-> keyword, category |-> c, status |-> st] @@
               (IF st \in {STATUS_PENDING, STATUS_RUN_GPT}
                THEN EmptyContentColumns ELSE ContentColumns(keyword))) :
        c \in {"Result", CATEGORY_NOT_RELEVANT},
        st \in SheetStatusCells, a \in SheetApprovalCells }

InitPublish ==
    /\ IdleCaller /\ IdleContent /\ IdleOrchestrator /\ IdleStage3 /\ IdlePublisher
    /\ IdleRest
    /\ phase1File = NoFile /\ categorizedFile = NoFile /\ approvedFile = NoFile
    /\ updatedFile = NoFile /\ sampleFile = NoFile /\ contentJson = NoFile
    /\ \/ sheet = NoSheet
       \/ \E n \in 1..Len(JobKeywords) :
            \E rows \in [1..n -> UNION {SheetRows(JobKeywords[i]) : i \in 1..n}] :
               /\ \A i \in 1..n : rows[i].Keyword = JobKeywords[i]
               /\ sheet = [exists |-> TRUE, rows |-> rows]
    /\ min_confidence = "Medium"

SpecPublish == InitPublish /\ [][NextPublisher]_vars

\* Two Publisher processes on the same worksheet, their steps interleaved.
NextRace == NextPublisher \/ NextRacer
SpecRace == InitPublish /\ [][NextRace]_vars

\* Categorization runs, entry by entry, with or without the phase 1 file.
InitBatch ==
    /\ IdleCaller /\ IdleContent /\ IdleOrchestrator /\ IdleStage3 /\ IdlePublisher
    /\ IdleRest
    /\ phase1File \in {NoFile, File(drop_duplicates(ExtractedRows))}
    /\ categorizedFile = NoFile /\ approvedFile = NoFile
    /\ updatedFile = NoFile /\ sampleFile = NoFile /\ contentJson = NoFile
    /\ sheet = NoSheet /\ min_confidence = "Medium"

SpecBatch == InitBatch /\ [][NextBatch]_vars

\* save_to_csv on every list of up to MaxTrends records.
InitDedup ==
    /\ IdleCaller /\ IdleContent /\ InitStores /\ IdleOrchestrator /\ IdleStage3
    /\ IdlePublisher /\ IdleRacer /\ IdleBatch /\ IdleMain /\ lastLm = "none"
    /\ trends \in UNION { [1..n -> TrendRecords] : n \in 0..MaxTrends }

SpecDedup == InitDedup /\ [][SaveTrends]_vars

\* Content generation runs with, between two runs, uploads to the worksheet
\* and a person setting the Status of a Pending row to Run GPT there.
BetweenStage3Runs == s3pc \in {"idle", "done"}
UploadBetweenRuns == BetweenStage3Runs /\ RunPhase4
OverrideBetweenRuns == BetweenStage3Runs /\ HumanSetRunGpt

OverrideFile ==
    File(<< [keyword |-> JobKeywords[1], category |-> "Admit Card",
             ai_confidence |-> "High", status |-> STATUS_RUN_GPT],
            [keyword |-> JobKeywords[2], category |-> "Result",
             ai_confidence |-> "Low", status |-> STATUS_PENDING] >>)

\* The same file after the first category was set to Not Relevant by hand.
OverrideSkippedFile ==
    File([OverrideFile.rows EXCEPT ![1].category = CATEGORY_NOT_RELEVANT])

InitOverride ==
    /\ IdleCaller /\ IdleContent /\ IdleOrchestrator /\ IdleStage3 /\ IdlePublisher
    /\ IdleRest
    /\ phase1File = File(drop_duplicates(ExtractedRows)) /\ categorizedFile = NoFile
    /\ approvedFile \in {OverrideFile, OverrideSkippedFile}
    /\ updatedFile = NoFile /\ sampleFile = NoFile /\ contentJson = NoFile
    /\ sheet = NoSheet /\ min_confidence = "Medium"

NextOverride == NextStage3 \/ UploadBetweenRuns \/ OverrideBetweenRuns
SpecOverride == InitOverride /\ [][NextOverride]_vars

\* The pipeline run once by an operator, command after command: the gate
\* script on a categorized file, content generation, the upload, approvals
\* written in the worksheet by a person, then the publisher, at most
\* MaxPublishRuns times.
ScenarioFirstRows ==
    [keyword : {JobKeywords[1]}, category : {"Admit Card", CATEGORY_NOT_RELEVANT},
     ai_confidence : {"Low"}, status : {STATUS_PENDING}]
ScenarioSecondRows ==
    [keyword : {JobKeywords[2]}, category : {"Result", CATEGORY_NOT_RELEVANT},
     ai_confidence : {"High", "Medium", "Low"}, status : {STATUS_PENDING}]

InitScenario ==
    /\ IdleCaller /\ IdleContent /\ IdleOrchestrator /\ IdleStage3 /\ IdlePublisher
    /\ IdleRest
    /\ phase1File = File(drop_duplicates(ExtractedRows))
    /\ \E first \in ScenarioFirstRows, second \in ScenarioSecondRows :
         categorizedFile = File(<<first, second>>)
    /\ approvedFile = NoFile
    /\ updatedFile = NoFile /\ sampleFile = NoFile /\ contentJson = NoFile
    /\ sheet = NoSheet /\ min_confidence = "Medium"

GateOnce == ~approvedFile.exists /\ RunGateScript
GenerateOnce == approvedFile.exists /\ s3pc = "idle" /\ Stage3Load
UploadOnce == s3pc = "done" /\ updatedFile.exists /\ ~sheet.exists /\ RunPhase4
ApproveBeforePublishing == sheet.exists /\ ppc = "idle" /\ HumanApprove
PublishUploaded == sheet.exists /\ PublishOpen

\* The gate never writes Run GPT on a Not Relevant row, so no entry is
\* skipped inside generate_content_for_keyword here.
NextScenario ==
    \/ GateOnce
    \/ GenerateOnce \/ Stage3Entry \/ Stage3Collect \/ Stage3Save
    \/ GenBegin \/ GenCallSucceeds \/ GenCallFails \/ GenReturn
    \/ UploadOnce \/ ApproveBeforePublishing
    \/ PublishUploaded \/ PublishRow \/ PublishDone
SpecScenario == InitScenario /\ [][NextScenario]_vars

\* Calls of main, one after the other, on a data directory that is empty or
\* holds what the gate left of an earlier categorization.
CategorizedBefore ==
    File([i \in DOMAIN OverrideFile.rows |->
            [OverrideFile.rows[i] EXCEPT !.status = STATUS_PENDING]])

InitMain ==
    /\ IdleCaller /\ IdleContent /\ IdleOrchestrator /\ IdleStage3 /\ IdlePublisher
    /\ IdleRest
    /\ phase1File = NoFile
    /\ \/ categorizedFile = NoFile /\ approvedFile = NoFile
       \/ categorizedFile = CategorizedBefore /\ approvedFile = OverrideFile
    /\ updatedFile = NoFile /\ sampleFile = NoFile /\ contentJson = NoFile
    /\ sheet = NoSheet /\ min_confidence = "Medium"

SpecMain == InitMain /\ [][NextMain]_vars

----------------------------------------------------------------------------
(* Claims about categorize_keyword, checked under SpecCaller *)

AllAttemptsFailed == ckpc = "returned" /\ parsed = <<>>

\* C4: the wait after the k-th failed attempt is backoff0 * 2^(k-1); when
\* every attempt fails the waits add up to backoff0 * (2^retries - 1), which
\* is 5 + 10 + 20 = 35 for retries = 3 and backoff = 5.
C4_BackoffGeometric ==
    /\ \A k \in 1..Len(slept) : slept[k] = backoff0 * Pow2(k - 1)
    /\ AllAttemptsFailed => SumSeq(slept) = backoff0 * (Pow2(retries) - 1)
    /\ (AllAttemptsFailed /\ retries = DefaultRetries /\ backoff0 = DefaultBackoff)
         => SumSeq(slept) = 5 + 10 + 20

C4_Witness ==
    /\ AllAttemptsFailed
    /\ retries = DefaultRetries /\ backoff0 = DefaultBackoff
    /\ slept = <<5, 10, 20>>

\* C5: categorize_keyword makes at most `retries` service calls, each new
\* call is made only while no body has been parsed and every earlier call
\* failed, and the function can always take a step until it has returned.
C5_BoundedCalls ==
    /\ [](calls <= retries /\ attempt <= retries)
    /\ [](ckpc \notin {"returned", "raised"} => ENABLED NextCaller)
    /\ [][calls' # calls =>
            /\ calls' = calls + 1
            /\ calls < retries
            /\ parsed = <<>>
            /\ Len(slept) = calls]_vars

C5_Witness ==
    /\ ckpc = "returned" /\ retries = DefaultRetries
    /\ calls = 2 /\ Len(slept) = 1 /\ parsed # <<>>

\* C6: categorize_keyword never raises; whatever the service does it returns
\* a record with category, confidence, reasoning and web_search_summary, and
\* when all attempts failed the record is Not Relevant / Low.
C6_NeverRaises ==
    /\ ckpc # "raised"
    /\ ckpc = "returned" =>
         /\ Len(ret) = 1
         /\ DOMAIN ret[1] = {"category", "confidence", "reasoning", "web_search_summary"}
         /\ AllAttemptsFailed =>
              /\ ret[1].category = CATEGORY_NOT_RELEVANT
              /\ ret[1].confidence = "Low"

C6_Witness ==
    /\ ckpc = "returned"
    /\ parsed = <<[kind |-> "not_a_record"]>>
    /\ ret = <<ErrorResult(perform_web_search(entryKw))>>

\* C20: when the parsed response has no category or one outside the taxonomy,
\* the returned record has category Not Relevant and confidence Low, whatever
\* confidence the response carried.
C20_InvalidCategoryCoerced ==
    (/\ ckpc = "returned" /\ parsed # <<>>
     /\ parsed[1].kind = "record"
     /\ parsed[1].category \notin VALID_CATEGORIES) =>
        /\ ret[1].category = CATEGORY_NOT_RELEVANT
        /\ ret[1].confidence = "Low"

----------------------------------------------------------------------------
(* Claims about generate_content_for_keyword, checked under SpecContent *)

\* C7: the error marker of a content type is recorded only after the call for
\* that type has been attempted DefaultRetries times (retry with backoff).
C7_ErrorOnlyAfterRetries ==
    \A t \in ContentTypeSet :
        IsErrorMarker(gContent[t]) => gCalls[t] = DefaultRetries

----------------------------------------------------------------------------
(* Claims about the stores and the stages, checked under Spec *)

\* Position of a status in Pending < Run GPT < Content Generated < Post Live
\* < Published; Not Relevant has none.
StatusRank(st) ==
    CASE st = STATUS_PENDING -> 0
      [] st = STATUS_RUN_GPT -> 1
      [] st = STATUS_CONTENT_GENERATED -> 2
      [] st = STATUS_POST_LIVE -> 3
      [] st = STATUS_PUBLISHED -> 4
      [] OTHER -> -1

Ranked(st) == StatusRank(st) >= 0

\* The statuses a keyword has in a file, and in the worksheet.
FileStatuses(file, keyword) ==
    { file.rows[i].status : i \in { j \in DOMAIN file.rows : file.rows[j].keyword = keyword } }
SheetStatuses(ws, keyword) ==
    { ws.rows[i].Status : i \in { j \in DOMAIN ws.rows : ws.rows[j].Keyword = keyword } }

NoStatusRegress(before, after) ==
    \A old \in before, new \in after :
        (Ranked(old) /\ Ranked(new)) => StatusRank(new) >= StatusRank(old)

AllKeywords == { JobKeywords[i] : i \in DOMAIN JobKeywords }

\* C1: no step moves the status of a keyword backward in
\* Pending < Run GPT < Content Generated < Post Live < Published, in any
\* Record Store file or in its Tabular Store row.
C1_StatusNeverRegresses ==
    [][\A kw \in AllKeywords :
          /\ NoStatusRegress(FileStatuses(categorizedFile, kw), FileStatuses(categorizedFile', kw))
          /\ NoStatusRegress(FileStatuses(approvedFile, kw), FileStatuses(approvedFile', kw))
          /\ NoStatusRegress(FileStatuses(updatedFile, kw), FileStatuses(updatedFile', kw))
          /\ NoStatusRegress(SheetStatuses(sheet, kw), SheetStatuses(sheet', kw))]_vars

BeyondGeneration == {STATUS_CONTENT_GENERATED, STATUS_POST_LIVE, STATUS_PUBLISHED}

\* C2: an entry whose category is Not Relevant never has status Content
\* Generated, Post Live or Published, in any file or worksheet row.
C2_NotRelevantNeverAdvances ==
    /\ \A file \in {categorizedFile, approvedFile, updatedFile} :
         \A i \in DOMAIN file.rows :
            file.rows[i].category = CATEGORY_NOT_RELEVANT
               => file.rows[i].status \notin BeyondGeneration
    /\ \A i \in DOMAIN sheet.rows :
         sheet.rows[i].Category = CATEGORY_NOT_RELEVANT
            => sheet.rows[i].Status \notin BeyondGeneration

\* The transitions of the entry lifecycle.
ValidTransition(from, to) ==
    <<from, to>> \in
        { <<STATUS_PENDING, STATUS_RUN_GPT>>,
          <<STATUS_RUN_GPT, STATUS_CONTENT_GENERATED>>,
          <<STATUS_CONTENT_GENERATED, STATUS_POST_LIVE>>,
          <<STATUS_CONTENT_GENERATED, STATUS_PUBLISHED>>,
          <<STATUS_POST_LIVE, STATUS_PUBLISHED>>,
          <<STATUS_PENDING, STATUS_NOT_RELEVANT>>,
          <<STATUS_RUN_GPT, STATUS_NOT_RELEVANT>> }

WritesOnlyValid(before, after) ==
    \A old \in before, new \in after : new # old => ValidTransition(old, new)

\* C3: a status written by the Approval Gate, Content Generation or Publish
\* is a valid transition from the status the stage found; an invalid write
\* is rejected and leaves the status of that entry as it was.
C3_InvalidTransitionRejected ==
    [][\A kw \in AllKeywords :
          /\ RunAutoApprove =>
               WritesOnlyValid(FileStatuses(categorizedFile, kw), FileStatuses(approvedFile', kw))
          /\ RunPhase3 =>
               WritesOnlyValid(FileStatuses(approvedFile, kw), FileStatuses(updatedFile', kw))
          /\ RunPublish =>
               WritesOnlyValid(SheetStatuses(sheet, kw), SheetStatuses(sheet', kw))]_vars

----------------------------------------------------------------------------
(* Claim about auto_approve, checked under SpecGate *)

ConfidenceRank(c) == CASE c = "Low" -> 0 [] c = "Medium" -> 1 [] c = "High" -> 2

\* C8: in the gate's output an entry with confidence Low, Medium or High has
\* status Run GPT exactly when its confidence rank is at least the rank of
\* the threshold and its category is not Not Relevant; every input entry is
\* written out, in input order.
C8_GateApprovesIff ==
    approvedFile.exists =>
        /\ Len(approvedFile.rows) = Len(categorizedFile.rows)
        /\ \A i \in DOMAIN categorizedFile.rows :
             LET in == categorizedFile.rows[i]
                 out == approvedFile.rows[i] IN
             /\ out.keyword = in.keyword
             /\ in.ai_confidence \in {"Low", "Medium", "High"} =>
                  (out.status = STATUS_RUN_GPT <=>
                     /\ ConfidenceRank(in.ai_confidence) >= ConfidenceRank(min_confidence)
                     /\ in.category # CATEGORY_NOT_RELEVANT)

C8_Witness ==
    /\ approvedFile.exists /\ min_confidence = "Medium"
    /\ Len(approvedFile.rows) = 2
    /\ categorizedFile.rows[1].ai_confidence = "Low"
    /\ categorizedFile.rows[1].category = "Result"
    /\ approvedFile.rows[1].status = STATUS_PENDING
    /\ categorizedFile.rows[2].ai_confidence = "High"
    /\ categorizedFile.rows[2].category = CATEGORY_NOT_RELEVANT
    /\ approvedFile.rows[2].status = STATUS_PENDING

----------------------------------------------------------------------------
(* Claims about run_all_phases, checked under SpecRuns *)

\* C9: when a full run has started Content Generation, what Content
\* Generation loaded is the Approval Gate's output for the entries that the
\* Categorization Stage of that run wrote (the gate ran in between).
C9_GateBetweenStages ==
    3 \in started =>
        /\ p3Input.exists
        /\ \E threshold \in Thresholds :
             p3Input.rows = auto_approve(categorizedFile.rows, threshold)

\* C10: in a full run in which phase 2 failed, phases 3 and 4 are not started
\* and the run has returned False.
C10_Phase2FailureAborts ==
    2 \in failed =>
        /\ 3 \notin started /\ 4 \notin started
        /\ opc = "done"
        /\ verdict = "False"

C10_Witness ==
    /\ opc = "done" /\ started = {1, 2} /\ failed = {1, 2}
    /\ verdict = "False" /\ sampleFile.exists

KeywordsOf(rows) == [i \in DOMAIN rows |-> rows[i].keyword]

\* C11: in a full run whose phase 1 failed, phase 2 does not fail and what it
\* has categorized is the sample dataset that the fallback produced.
C11_SampleDataCategorized ==
    (1 \in failed /\ 2 \in started) =>
        /\ 2 \notin failed
        /\ sampleFile.exists /\ categorizedFile.exists
        /\ KeywordsOf(categorizedFile.rows) = KeywordsOf(sampleFile.rows)

\* The phases that completed successfully in the current full run.
CompletedInRun == started \ failed

\* C12: whenever run_all_phases has returned, with prerequisites failed, after
\* the stop at phase 2 or after the summary, it returned True exactly when at
\* least 2 of the 4 phases completed successfully in that run.
C12_SuccessIffTwoPhases ==
    (opc = "done" /\ verdict # "none") =>
        (verdict = "True" <=> Cardinality(CompletedInRun) >= 2)

C12_Witness ==
    /\ opc = "done" /\ verdict = "True"
    /\ started = {1, 2, 3, 4} /\ failed = {3, 4}

\* C13: the verdict of a full run that reached phase 4 is the verdict the
\* same outcomes of phases 1 to 3 give when phase 4 fails, that is, it does
\* not depend on the outcome of phase 4.
C13_VerdictIgnoresPhase4 ==
    (opc = "done" /\ 4 \in started) =>
        (verdict = "True" <=> Cardinality(CompletedInRun \ {4}) >= 2)

\* C14: in a full run in which phase 2 succeeded and phase 3 failed, phase 4
\* is the next step of the run, and the run does not end before phase 4 has
\* started.
C14_Phase3FailureTolerated ==
    (3 \in failed /\ 2 \notin failed) =>
        \/ opc = "phase4" /\ ENABLED OrchPhase4
        \/ 4 \in started

C14_Witness ==
    /\ opc = "done" /\ started = {1, 2, 3, 4}
    /\ 2 \notin failed /\ 3 \in failed

----------------------------------------------------------------------------
(* Claims about content generation runs, checked under SpecStage3 *)

ErrorMarkers(content) == { t \in ContentTypeSet : IsErrorMarker(content[t]) }
Artifacts(content) == { t \in ContentTypeSet : content[t] \in ParsedContents }

\* The calls made so far in the for loop: one for each content type before
\* position idx, none for the others.
CalledUpTo(idx) ==
    \A i \in DOMAIN ContentTypes :
        gCalls[ContentTypes[i]] = IF i < idx THEN 1 ELSE 0

\* C15: for an entry with status Run GPT and a relevant category every one of
\* the four calls is made whatever the earlier ones did; a failed call adds
\* exactly one error marker and a successful call exactly one artifact, so k
\* failed calls leave k error markers and 4-k artifacts; and the entry is
\* written out with status Content Generated.
C15_ErrorMarkerPerFailedCall ==
    /\ [][/\ GenCallFails =>
               /\ ContentTypes[gIdx] \notin ErrorMarkers(gContent)
               /\ ErrorMarkers(gContent') = ErrorMarkers(gContent) \cup {ContentTypes[gIdx]}
               /\ Artifacts(gContent') = Artifacts(gContent)
          /\ GenCallSucceeds =>
               /\ ContentTypes[gIdx] \notin Artifacts(gContent)
               /\ Artifacts(gContent') = Artifacts(gContent) \cup {ContentTypes[gIdx]}
               /\ ErrorMarkers(gContent') = ErrorMarkers(gContent)]_vars
    /\ [](gpc = "loop" => CalledUpTo(gIdx))
    /\ []((gpc = "returned" /\ ~SkipsEntry(gEntry)) =>
            /\ CalledUpTo(Len(ContentTypes) + 1)
            /\ gRet = <<gContent>>
            /\ Cardinality(ErrorMarkers(gContent)) + Cardinality(Artifacts(gContent))
                 = Len(ContentTypes))
    /\ [](s3pc = "done" =>
            \A i \in DOMAIN s3Data :
                ~SkipsEntry(s3Data[i]) =>
                    /\ s3Ret = "True"
                    /\ updatedFile.rows[i].keyword = s3Data[i].keyword
                    /\ updatedFile.rows[i].status = STATUS_CONTENT_GENERATED
                    /\ \E j \in DOMAIN s3Results :
                         /\ s3Results[j].keyword = s3Data[i].keyword
                         /\ contentJson.rows[j].keyword = s3Data[i].keyword
                         /\ ErrorMarkers(contentJson.rows[j].content)
                              = ErrorMarkers(s3Results[j].content))

\* C16: the output of a content generation run holds every input entry once
\* and in input order, and an entry no content was generated for (status not
\* Run GPT, or category Not Relevant) is written out unchanged.
C16_UntouchedEntriesPreserved ==
    (s3pc = "done" /\ s3Ret = "True") =>
        /\ Len(updatedFile.rows) = Len(approvedFile.rows)
        /\ \A i \in DOMAIN approvedFile.rows :
             /\ updatedFile.rows[i].keyword = approvedFile.rows[i].keyword
             /\ SkipsEntry(approvedFile.rows[i])
                  => \A column \in DOMAIN approvedFile.rows[i] :
                         updatedFile.rows[i][column] = approvedFile.rows[i][column]

C16_Witness ==
    /\ s3pc = "done" /\ s3Ret = "True"
    /\ Len(updatedFile.rows) = 2
    /\ updatedFile.rows[1].status = STATUS_CONTENT_GENERATED
    /\ updatedFile.rows[2].category = CATEGORY_NOT_RELEVANT
    /\ updatedFile.rows[2].status = STATUS_RUN_GPT

\* C17: a content generation run makes no call for a content type of an entry
\* for which generated_content.json, written by an earlier run, already holds
\* an artifact.
C17_NoRegeneration ==
    (s3pc = "generating" /\ contentJson.exists) =>
        \A j \in DOMAIN contentJson.rows, t \in ContentTypeSet :
            (/\ contentJson.rows[j].keyword = gEntry.keyword
             /\ contentJson.rows[j].content[t] = "artifact")
                => gCalls[t] = 0

----------------------------------------------------------------------------
(* Claims about Publisher.run, checked under SpecPublish *)

\* C18: when a Publisher run on a worksheet nobody else changes has returned,
\* a row is Published exactly when it was Published in the rows the run read
\* or had Approval = Approved and a Status other than Not Relevant; every
\* other row is as it was, only Status cells are written, and the rows passed
\* to the mock publish calls are exactly those that became Published.
C18_PublishedIff ==
    (ppc = "done" /\ pRet = "True") =>
        /\ Len(sheet.rows) = Len(pRows)
        /\ \A i \in DOMAIN pRows :
             LET before == pRows[i]
                 after == sheet.rows[i] IN
             /\ after.Status = STATUS_PUBLISHED <=>
                  \/ before.Status = STATUS_PUBLISHED
                  \/ before.Approval = "Approved" /\ before.Status # STATUS_NOT_RELEVANT
             /\ after.Status # STATUS_PUBLISHED => after = before
             /\ [after EXCEPT !.Status = before.Status] = before
             /\ (\E j \in DOMAIN pPublished : pPublished[j] = before.Keyword)
                  <=> (before.Status # STATUS_PUBLISHED /\ after.Status = STATUS_PUBLISHED)
        /\ Len(pPublished) <= Len(pRows)

C18_Witness ==
    /\ ppc = "done" /\ pRet = "True" /\ pRuns = 1
    /\ pPublished = <<JobKeywords[1]>>
    /\ Len(sheet.rows) = 2
    /\ pRows[1].Status = STATUS_CONTENT_GENERATED
    /\ sheet.rows[1].Approval = "Approved" /\ sheet.rows[1].Status = STATUS_PUBLISHED
    /\ sheet.rows[2].Approval = "" /\ sheet.rows[2].Status = STATUS_CONTENT_GENERATED

\* C19: a Publisher run that follows a Publisher run, with no edit of the
\* worksheet in between, passes no row to the mock publish calls, writes no
\* Status cell, and leaves the worksheet as the first run left it.
C19_PublishIdempotent ==
    /\ [](pRuns >= 2 => (pPublished = <<>> /\ (ppc = "rows" => sheet.rows = pRows)))
    /\ [][pRuns' >= 2 => sheet' = sheet]_vars

C19_Witness ==
    /\ pRuns = 2 /\ ppc = "done" /\ pRet = "True" /\ pPublished = <<>>
    /\ Len(sheet.rows) = 2
    /\ \A i \in DOMAIN sheet.rows :
         sheet.rows[i].Approval = "Approved" /\ sheet.rows[i].Status = STATUS_PUBLISHED

----------------------------------------------------------------------------
(* Claims about process_batch, checked under SpecBatch *)

\* C21: process_batch returns exactly one categorized entry per input entry,
\* in input order, whichever entries have failing Language Model calls: while
\* the loop runs categorized_data holds one entry for each input entry
\* already handled, every entry in it has status Pending, an entry whose
\* attempts all failed is appended with category Not Relevant and confidence
\* Low, and the list that is saved has the keywords of the input, in order.
C21_OneEntryPerInput ==
    /\ [](b2pc \in {"entries", "categorizing"} =>
            /\ Len(b2Out) = b2Idx - 1
            /\ \A i \in DOMAIN b2Out :
                 /\ b2Out[i].keyword = b2Data[i].keyword
                 /\ b2Out[i].status = STATUS_PENDING)
    /\ []((b2pc = "done" /\ b2Ret = "True") =>
            /\ categorizedFile = File(b2Out)
            /\ Len(b2Out) = Len(b2Data)
            /\ KeywordsOf(b2Out) = KeywordsOf(b2Data))
    /\ [][(b2pc = "categorizing" /\ b2pc' = "entries" /\ AllAttemptsFailed) =>
            /\ Len(b2Out') = Len(b2Out) + 1
            /\ b2Out'[Len(b2Out')].category = CATEGORY_NOT_RELEVANT
            /\ b2Out'[Len(b2Out')].ai_confidence = "Low"]_vars

C21_Witness ==
    /\ b2pc = "done" /\ b2Ret = "True"
    /\ AllAttemptsFailed /\ calls = DefaultRetries
    /\ Len(categorizedFile.rows) = 2
    /\ categorizedFile.rows[1].keyword = JobKeywords[1]
    /\ categorizedFile.rows[1].category = "Result"
    /\ categorizedFile.rows[1].ai_confidence = "High"
    /\ categorizedFile.rows[2].keyword = JobKeywords[2]
    /\ categorizedFile.rows[2].category = CATEGORY_NOT_RELEVANT
    /\ categorizedFile.rows[2].ai_confidence = "Low"
    /\ \A i \in 1..2 : categorizedFile.rows[i].status = STATUS_PENDING

\* C22: in the file the Categorization Stage writes, the confidence of every
\* entry is one of Low, Medium, High, whatever text the Language Model put in
\* the confidence field.
ConfidenceEnum == {"Low", "Medium", "High"}

C22_ConfidenceInEnum ==
    categorizedFile.exists =>
        \A i \in DOMAIN categorizedFile.rows :
            categorizedFile.rows[i].ai_confidence \in ConfidenceEnum

----------------------------------------------------------------------------
(* Claims about the worksheet as a source of statuses, checked under      *)
(* SpecOverride                                                            *)

\* C23: when a Content Generation run ends, every entry whose worksheet row
\* a person had set to Run GPT before the run started, and whose category is
\* a relevant one, is among the entries the run generated content for.
C23_HumanOverrideHonored ==
    [][(s3pc = "entries" /\ s3pc' = "done") =>
          \A i \in DOMAIN sheet.rows :
              (/\ sheet.rows[i].Status = STATUS_RUN_GPT
               /\ sheet.rows[i].Category # CATEGORY_NOT_RELEVANT)
                 => \E j \in DOMAIN s3Results :
                        s3Results[j].keyword = sheet.rows[i].Keyword]_vars

----------------------------------------------------------------------------
(* Claims about what a stage run does to the worksheet, checked under Spec *)

\* The cell values only a person or the Publish Stage writes: no file of the
\* pipeline holds them.
WrittenByHand(row) ==
    (IF row.Approval = "Approved" THEN {<<"Approval", row.Approval>>} ELSE {})
    \cup (IF row.Status \in {STATUS_POST_LIVE, STATUS_PUBLISHED}
          THEN {<<"Status", row.Status>>} ELSE {})

\* C24: a stage 4 run leaves in place every Approval value Approved and every
\* Status value Post Live or Published found in a worksheet row: the row of
\* that keyword after the upload still carries the value.
C24_HandWrittenCellsKept ==
    [][RunPhase4 =>
          \A i \in DOMAIN sheet.rows, j \in DOMAIN sheet'.rows :
              sheet'.rows[j].Keyword = sheet.rows[i].Keyword
                 => WrittenByHand(sheet.rows[i]) \subseteq WrittenByHand(sheet'.rows[j])]_vars

\* C25: no step of a stage, of the gate, of the publisher or of a person
\* removes an entry from the worksheet: every keyword with a row before the
\* step has a row after it.
SheetKeywords(ws) == { ws.rows[i].Keyword : i \in DOMAIN ws.rows }

C25_NoEntryRemoved ==
    [][SheetKeywords(sheet) \subseteq SheetKeywords(sheet')]_vars

\* C29: a stage run without its upstream file (phase1_trends_data.csv for
\* stage 2, phase2_approved.csv for stage 3, updated_trends_data.csv for
\* stage 4) writes no file and changes nothing in the worksheet.
C29_MissingInputWritesNothing ==
    [][/\ (RunPhase2 /\ ~phase1File.exists) => UNCHANGED <<fileVars, sheet>>
       /\ (RunPhase3 /\ ~approvedFile.exists) => UNCHANGED <<fileVars, sheet>>
       /\ (RunPhase4 /\ ~updatedFile.exists) => UNCHANGED <<fileVars, sheet>>]_vars

----------------------------------------------------------------------------
(* Claims about the deduplication of stage 1, checked under SpecDedup *)

\* The place of the last record with this keyword in a list.
LastWith(data, keyword) ==
    CHOOSE i \in DOMAIN data :
        /\ data[i].keyword = keyword
        /\ \A j \in DOMAIN data : data[j].keyword = keyword => j <= i

\* C26: in the file stage 1 writes, every keyword the Trend Source yielded
\* has exactly one entry, and that entry is the record yielded last for the
\* keyword.
C26_LastRecordKept ==
    phase1File.exists =>
        \A k \in DOMAIN trends :
            LET keyword == trends[k].keyword
                kept == { i \in DOMAIN phase1File.rows :
                            phase1File.rows[i].keyword = keyword } IN
            /\ Cardinality(kept) = 1
            /\ \A i \in kept : phase1File.rows[i] = trends[LastWith(trends, keyword)]

----------------------------------------------------------------------------
(* Claims about two interleaved Publisher runs, checked under SpecRace *)

\* C27: nothing makes a Publisher run wait for another one: a second run can
\* read the worksheet whatever the first is doing, and a row that both runs
\* read as approved and not yet Published is, once both loops have passed
\* it, passed to the mock publish calls by both and has Status Published.
C27_BothRunsPublish ==
    /\ qpc = "idle" => ENABLED Publish2Open
    /\ \A i \in DOMAIN pRows \cap DOMAIN qRows :
         (/\ ppc \in {"rows", "done"} /\ pIdx > i /\ Publishes(pRows[i])
          /\ qpc \in {"rows", "done"} /\ qIdx > i /\ Publishes(qRows[i]))
            => /\ \E j \in DOMAIN pPublished : pPublished[j] = pRows[i].Keyword
               /\ \E j \in DOMAIN qPublished : qPublished[j] = qRows[i].Keyword
               /\ sheet.rows[i].Status = STATUS_PUBLISHED

C27_Witness ==
    /\ ppc = "done" /\ pRuns = 1 /\ qpc = "done"
    /\ Len(sheet.rows) = 2
    /\ pRows[1].Status = STATUS_CONTENT_GENERATED /\ pRows[1].Approval = "Approved"
    /\ qRows[1] = pRows[1]
    /\ pPublished = <<JobKeywords[1]>>
    /\ qPublished = <<JobKeywords[1]>>
    /\ sheet.rows[1].Status = STATUS_PUBLISHED

----------------------------------------------------------------------------
(* Claims about the pacing of Language Model calls, checked under          *)
(* SpecContent                                                             *)

\* C28: a call to the Language Model Service is never made right after
\* another call: between two calls there is a delay (add_delay or a backoff
\* sleep), whether the earlier call succeeded or failed.
C28_DelayAfterEveryCall ==
    [][(calls' # calls \/ gCalls' # gCalls) => lastLm # "call"]_vars

----------------------------------------------------------------------------
(* Claims about the exit code of main, checked under SpecMain *)

\* C30: when the process has ended, its exit code is not 0 if it was started
\* with --phase n and that phase returned False, and not 0 if it was started
\* as a full run in which the categorization phase failed.
C30_NonZeroExitOnFailure ==
    (mpc = "exited" /\ ~mSample) =>
        /\ (mPhase \in 1..4 /\ mSuccess = "False") => exitCode # 0
        /\ (mPhase = 0 /\ 2 \in failed) => exitCode # 0

C30_Witness ==
    /\ mpc = "exited" /\ ~mSample /\ mPhase = 0
    /\ 2 \in failed /\ mSuccess = "False" /\ exitCode = 1

----------------------------------------------------------------------------
(* Claims about what a full run uploads, checked under SpecRuns *)

\* C35: when a full run in which phase 4 succeeded has ended, the worksheet
\* holds the entries phase 2 categorized in that run: one row per entry of
\* phase2_categorized_data.csv, with its keyword and its category; so after
\* a failed phase 3 the rows are not those of an earlier run.
C35_UploadIsThisRunsData ==
    (opc = "done" /\ 4 \in CompletedInRun) =>
        /\ Len(sheet.rows) = Len(categorizedFile.rows)
        /\ \A i \in DOMAIN sheet.rows :
             /\ sheet.rows[i].Keyword = categorizedFile.rows[i].keyword
             /\ sheet.rows[i].Category = categorizedFile.rows[i].category

----------------------------------------------------------------------------
(* Claims about the result of a Content Generation run, checked under      *)
(* SpecStage3                                                              *)

\* C37: a Content Generation run returns True exactly when
\* phase2_approved.csv exists and holds an entry with status Run GPT and a
\* category other than Not Relevant; and an entry whose four calls all
\* failed is written out with status Content Generated when the run has
\* returned.
AllCallsFailed(content) == ErrorMarkers(content) = ContentTypeSet

C37_SuccessIffEligibleEntry ==
    s3pc = "done" =>
        /\ s3Ret = "True" <=>
             /\ approvedFile.exists
             /\ \E i \in DOMAIN approvedFile.rows : ~SkipsEntry(approvedFile.rows[i])
        /\ \A j \in DOMAIN s3Results :
             AllCallsFailed(s3Results[j].content) =>
                 \E i \in DOMAIN updatedFile.rows :
                     /\ updatedFile.rows[i].keyword = s3Results[j].keyword
                     /\ updatedFile.rows[i].status = STATUS_CONTENT_GENERATED

----------------------------------------------------------------------------
(* Claims about the result of a Categorization run, checked under SpecBatch *)

\* C36: a Categorization run returns True exactly when
\* phase1_trends_data.csv exists and holds an entry, whatever the Language
\* Model calls did: the saved file has one entry per input entry, and every
\* entry whose attempts all failed is in it as Not Relevant / Low.
AttemptsAllFailed(row) == row.ai_reasoning = "ApiPipe quota exceeded or errors"

C36_SuccessWhateverTheCalls ==
    b2pc = "done" =>
        /\ b2Ret = "True" <=> (phase1File.exists /\ phase1File.rows # <<>>)
        /\ b2Ret = "True" =>
             /\ categorizedFile.exists
             /\ Len(categorizedFile.rows) = Len(phase1File.rows)
             /\ \A i \in DOMAIN categorizedFile.rows :
                  AttemptsAllFailed(categorizedFile.rows[i]) =>
                      /\ categorizedFile.rows[i].category = CATEGORY_NOT_RELEVANT
                      /\ categorizedFile.rows[i].ai_confidence = "Low"

C36_Witness ==
    /\ b2pc = "done" /\ b2Ret = "True"
    /\ Len(categorizedFile.rows) = 2
    /\ \A i \in DOMAIN categorizedFile.rows :
         /\ AttemptsAllFailed(categorizedFile.rows[i])
         /\ categorizedFile.rows[i].category = CATEGORY_NOT_RELEVANT
         /\ categorizedFile.rows[i].ai_confidence = "Low"

----------------------------------------------------------------------------
(* Claims about the classification request, checked under SpecBatch *)

\* C34: the prompt built for an entry of phase1_trends_data.csv carries the
\* interest and the related-topics text that phase 1 recorded for the
\* keyword.
C34_PromptCarriesTrendData ==
    b2pc = "categorizing" =>
        /\ prompt[1].keyword = b2Data[b2Idx].keyword
        /\ prompt[1].interest_score = b2Data[b2Idx].interest
        /\ prompt[1].related_queries = b2Data[b2Idx].related_topics

----------------------------------------------------------------------------
(* Claims about what publishing a row does, checked under SpecPublish *)

\* The rows the running (or finished) publisher run has advanced to
\* Published.
AdvancedToPublished ==
    { i \in DOMAIN pRows :
         /\ i < pIdx
         /\ pRows[i].Status # STATUS_PUBLISHED
         /\ sheet.rows[i].Status = STATUS_PUBLISHED }

\* C32: a row that the publisher advances to Published has its published
\* timestamp set by that transition.
C32_PublishedTimestampSet ==
    \A i \in AdvancedToPublished : sheet.rows[i].PublishedTimestamp # ""

LinkCells == {"InstagramLink", "BlogLink", "YouTubeReelLink", "YouTubeThumbnailLink"}

\* C33: for every row the publisher publishes, one mock publish call is made
\* for each of the row's four links, with the link stored in that row.
C33_OneCallPerStoredLink ==
    \A i \in AdvancedToPublished :
        LET callsOfRow == { k \in DOMAIN pCalls : pCalls[k].keyword = pRows[i].Keyword } IN
        /\ Cardinality(callsOfRow) = Cardinality(LinkCells)
        /\ \A cell \in LinkCells :
              \E k \in callsOfRow : pCalls[k].link = <<pRows[i][cell]>>

----------------------------------------------------------------------------
(* The end-to-end scenario, checked under SpecScenario *)

\* The categorized entries the scenario is about: Result with confidence High.
ResultHigh ==
    { i \in DOMAIN categorizedFile.rows :
         /\ categorizedFile.rows[i].category = "Result"
         /\ categorizedFile.rows[i].ai_confidence = "High" }

\* The item of generated_content.json for a keyword holds a value for each of
\* the four content types.
FourArtifacts(keyword) ==
    \E j \in DOMAIN contentJson.rows :
        /\ contentJson.rows[j].keyword = keyword
        /\ \A t \in ContentTypeSet : contentJson.rows[j].content[t] # "absent"

====
